---- MODULE Spec2Model ----
(***************************************************************************)
(* A model of the ledger service's data-access layer: the four document   *)
(* collections (ledgers, accounts, commodities, transactions), the        *)
(* optimistic-concurrency update and delete protocol each DAL implements, *)
(* the transaction balance validator with its exact price arithmetic,     *)
(* and the account path functions.                                        *)
(*                                                                         *)
(* Strings that the code takes apart (account paths) are sequences of     *)
(* symbols; every symbol stands for a colon-free piece of text, except    *)
(* ":" itself.  Timestamps are integer clock ticks: one tick is the       *)
(* resolution at which two stored datetimes can be told apart.            *)
(***************************************************************************)
EXTENDS Integers, Sequences, FiniteSets, TLC

(***************************************************************************)
(* Bounds of the model.                                                    *)
(***************************************************************************)
MaxClock == 1
MaxOps == 3
MaxPathLen == 5
MaxAmount == 4
MaxPrice == 3

(***************************************************************************)
(* Absent values.  NoTime is an absent timestamp (deleted_at = None, no    *)
(* If-Match value).                                                       *)
(***************************************************************************)
NoTime == 0 - 1

(***************************************************************************)
(* core/utils.py: split_path, and the string operations it and the path   *)
(* validators use.                                                         *)
(***************************************************************************)
Colon == ":"

\* Index of the first ":" of p, or 0.
RECURSIVE FirstColonFrom(_, _)
FirstColonFrom(p, i) ==
  IF i > Len(p) THEN 0
  ELSE IF p[i] = Colon THEN i
  ELSE FirstColonFrom(p, i + 1)

\* str.split(":"): the pieces between the colons, empty pieces kept.
RECURSIVE StrSplit(_)
StrSplit(p) ==
  LET i == FirstColonFrom(p, 1)
  IN IF i = 0 THEN <<p>>
     ELSE <<SubSeq(p, 1, i - 1)>> \o StrSplit(SubSeq(p, i + 1, Len(p)))

\* itertools.accumulate(parts, lambda x, y: f"{x}:{y}").
RECURSIVE Accumulate(_)
Accumulate(parts) ==
  IF Len(parts) <= 1 THEN parts
  ELSE LET front == Accumulate(SubSeq(parts, 1, Len(parts) - 1))
       IN Append(front, front[Len(front)] \o <<Colon>> \o parts[Len(parts)])

\* A faulty split_path: the segments themselves, not their cumulative prefixes.
split_path_segments(path) == StrSplit(path)

split_path(path) == Accumulate(StrSplit(path))

\* str.lstrip(":") and str.rstrip(":"), together str.strip(":").
RECURSIVE LStrip(_)
LStrip(p) == IF p # <<>> /\ Head(p) = Colon THEN LStrip(Tail(p)) ELSE p

RECURSIVE RStrip(_)
RStrip(p) ==
  IF p # <<>> /\ p[Len(p)] = Colon THEN RStrip(SubSeq(p, 1, Len(p) - 1)) ELSE p

Strip(p) == RStrip(LStrip(p))

ROOT_PATH ==
  { <<"Assets">>, <<"Liabilities">>, <<"Incomes">>, <<"Expenses">>, <<"Equity">> }

\* AccountModel.parse_path.
parse_path(path) == split_path(path)

\* NewAccount.validate_path: the stored path, or a ValueError.
\* A faulty validate_path: the root segment is not checked.
validate_path_any_root(v) == [ok |-> TRUE, path |-> Strip(v)]

NewAccount_validate_path(v) ==
  IF split_path(v)[1] \notin ROOT_PATH
  THEN [ok |-> FALSE, path |-> <<>>]
  ELSE [ok |-> TRUE, path |-> Strip(v)]

\* AccountUpdate.validate_path: path absent from the body (None) passes; a
\* present path is checked like NewAccount's and stripped.  An empty string
\* has the first piece "" and is rejected.
AccountUpdate_validate_path(v) ==
  IF split_path(v)[1] \notin ROOT_PATH
  THEN [ok |-> FALSE, path |-> <<>>]
  ELSE [ok |-> TRUE, path |-> Strip(v)]

(***************************************************************************)
(* domain/types/transaction.py: FractionPrice, Detail.total and           *)
(* NewTransaction.check_details.  fractions.Fraction keeps a fraction in  *)
(* lowest terms with a positive denominator and raises ZeroDivisionError  *)
(* for a zero denominator.                                                 *)
(***************************************************************************)
Abs(x) == IF x < 0 THEN 0 - x ELSE x

RECURSIVE Gcd(_, _)
Gcd(a, b) == IF b = 0 THEN a ELSE Gcd(b, a % b)

\* Exact quotient of x by g, for g > 0 dividing x.
ExactDiv(x, g) == IF x < 0 THEN 0 - ((0 - x) \div g) ELSE x \div g

\* Fraction(numerator, denominator), denominator # 0.
Fraction(n, d) ==
  LET g == Gcd(Abs(n), Abs(d))
      s == IF d < 0 THEN 0 - 1 ELSE 1
  IN [numerator |-> ExactDiv(s * n, g), denominator |-> ExactDiv(s * d, g)]

\* FractionPrice.amount.
FractionPrice_amount(price) == Fraction(price.numerator, price.denominator)

\* int * Fraction.
IntTimesFraction(a, f) == Fraction(a * f.numerator, f.denominator)

NoPrice == [commodity_id |-> 0, numerator |-> 0, denominator |-> 0]

\* Detail.total: the Amount, or the exception the property raises.
Detail_total(detail) ==
  IF detail.price = NoPrice
  THEN [raised |-> "none", commodity_id |-> detail.commodity_id, amount |-> detail.amount]
  ELSE IF detail.price.denominator = 0
  THEN [raised |-> "ZeroDivisionError", commodity_id |-> 0, amount |-> 0]
  ELSE LET value == IntTimesFraction(detail.amount, FractionPrice_amount(detail.price))
       IN IF value.denominator # 1
          THEN [raised |-> "ValueError", commodity_id |-> 0, amount |-> 0]
          ELSE [raised |-> "none", commodity_id |-> detail.price.commodity_id,
                amount |-> value.numerator]

\* sum(detail.total.amount for detail in details), left to right: the running
\* sum, or the first exception a total raises.
RECURSIVE SumTotals(_, _)
SumTotals(details, acc) ==
  IF details = <<>> THEN [raised |-> "none", sum |-> acc]
  ELSE LET t == Detail_total(Head(details))
       IN IF t.raised # "none" THEN [raised |-> t.raised, sum |-> 0]
          ELSE SumTotals(Tail(details), acc + t.amount)

\* NewTransaction.check_details: "ok", a ValueError (which pydantic turns into
\* a validation error), or an exception of another type, which pydantic lets
\* through unchanged.
\* A faulty check_details: the balance is not checked.
check_details_not_empty(details) == IF details = <<>> THEN "ValidationError" ELSE "ok"

check_details(details) ==
  IF details = <<>> THEN "ValidationError"
  ELSE LET s == SumTotals(details, 0)
       IN IF s.raised = "ValueError" THEN "ValidationError"
          ELSE IF s.raised = "ZeroDivisionError" THEN "ZeroDivisionError"
          ELSE IF s.sum # 0 THEN "ValidationError"
          ELSE "ok"

(***************************************************************************)
(* The state.  Each collection maps the ids of its stored documents to    *)
(* the documents (soft-deleted documents stay in it).  clock is the       *)
(* reading the next now() returns.  reqs holds the requests in flight,    *)
(* one per worker slot, with the local variables of their handlers; hist  *)
(* is the log of the completed requests, oldest first (it is not program  *)
(* state: it records what each caller was told).                          *)
(***************************************************************************)
VARIABLES ledgers, accounts, commodities, transactions, clock, reqs, hist, calc

vars == <<ledgers, accounts, commodities, transactions, clock, reqs, hist, calc>>

Slots == {1, 2}

LedgerIds == {1, 2}
AccountIds == {1, 2}
CommodityIds == {1, 2}
TransactionIds == {1}

Idle == [pc |-> "idle"]

\* uuid7(): an identifier no stored document has.
FreshId(coll, ids) == CHOOSE i \in ids \ DOMAIN coll : \A j \in ids \ DOMAIN coll : i <= j

\* The number of requests begun so far.
Begun == Len(hist) + Cardinality({s \in Slots : reqs[s] # Idle})

\* A new request takes the first free worker slot.
FreeSlot(s) == reqs[s] = Idle /\ \A t \in Slots : t < s => reqs[t] # Idle

CanBegin(s) == FreeSlot(s) /\ Begun < MaxOps

\* Whether another request is in flight.
Busy(s) == \E t \in Slots \ {s} : reqs[t] # Idle

\* The record of a request as it begins: what the caller sent, and the
\* handler's local variables.  seq is the number of requests completed before
\* it began, conc whether it ever ran beside another request.
NewReq(kind, op, l, id, exp, patch) ==
  [kind |-> kind, op |-> op, ledger_id |-> l, id |-> id, exp |-> exp,
   patch |-> patch, pc |-> "begin", t_lookup |-> NoTime, seen |-> NoTime,
   ts |-> NoTime, wrote |-> FALSE, found |-> FALSE, result |-> "pending",
   returned |-> {}, seq |-> Len(hist), conc |-> FALSE, clash |-> FALSE]

\* The other requests in flight are marked as having had company.
Beside(s) == [t \in Slots |-> IF t # s /\ reqs[t] # Idle
                               THEN [reqs[t] EXCEPT !.conc = TRUE] ELSE reqs[t]]

\* The request in slot s goes on with record r.
Goes(s, r) ==
  /\ reqs' = [Beside(s) EXCEPT ![s] = [r EXCEPT !.conc = r.conc \/ Busy(s)]]
  /\ hist' = hist
  /\ calc' = calc

\* The request in slot s ends with record r: the caller has its answer.
Ends(s, r) ==
  /\ reqs' = [Beside(s) EXCEPT ![s] = Idle]
  /\ hist' = Append(hist, [r EXCEPT !.pc = "done", !.conc = r.conc \/ Busy(s)])
  /\ calc' = calc

\* The clock readings a handler can have taken between its lookup and now.
Readings(r) == r.t_lookup .. clock

Active(row) == row.deleted_at = NoTime

(***************************************************************************)
(* domain/accounts.py: AccountsDAL.                                        *)
(***************************************************************************)
\* An index declared with a filter on deleted_at: soft-deleted documents
\* are outside it.
AccountIndexClashAmongActive(coll, id, row) ==
  \E j \in DOMAIN coll \ {id} :
    /\ Active(coll[j])
    /\ coll[j].ledger_id = row.ledger_id
    /\ coll[j].path = row.path
    /\ coll[j].name = row.name

\* The unique index of the accounts collection, (ledger_id, path, name): it
\* has no filter, so it spans the soft-deleted documents too.
AccountIndexClash(coll, id, row) ==
  \E j \in DOMAIN coll \ {id} :
    /\ coll[j].ledger_id = row.ledger_id
    /\ coll[j].path = row.path
    /\ coll[j].name = row.name

\* AccountModel.find_one(id == account_id, ledger_id == ledger_id, deleted_at == None).
FindLedgerAccount(l, id) ==
  IF id \in DOMAIN accounts /\ accounts[id].ledger_id = l /\ Active(accounts[id])
  THEN {accounts[id]} ELSE {}

\* AccountsDAL.get_ledger_account: the account, or ObjectNotFound.
get_ledger_account(l, id) ==
  IF FindLedgerAccount(l, id) = {} THEN [result |-> "NotFound", returned |-> {}]
  ELSE [result |-> "ok", returned |-> FindLedgerAccount(l, id)]

\* AccountsDAL.get_by_id: find_one(id, deleted_at == None) handed to
\* Account.model_validate, which raises a validation error for None.
get_by_id(id) ==
  IF id \in DOMAIN accounts /\ Active(accounts[id])
  THEN [result |-> "ok", returned |-> {accounts[id]}]
  ELSE [result |-> "ValidationError", returned |-> {}]

\* A faulty get_ledger_accounts: the filter compares the leading characters of
\* the path instead of looking the filter up in the paths list.
get_ledger_accounts_prefix(l, paths) ==
  { accounts[i] : i \in { j \in DOMAIN accounts :
      /\ accounts[j].ledger_id = l
      /\ Active(accounts[j])
      /\ (paths # {} => \E p \in paths :
            /\ Len(p) <= Len(accounts[j].path)
            /\ SubSeq(accounts[j].path, 1, Len(p)) = p) } }

\* AccountsDAL.get_ledger_accounts: the active accounts of the ledger, those
\* with one of `paths` in their paths list when `paths` is not empty.
get_ledger_accounts(l, paths) ==
  { accounts[i] : i \in { j \in DOMAIN accounts :
      /\ accounts[j].ledger_id = l
      /\ Active(accounts[j])
      /\ (paths # {} => \E k \in 1..Len(accounts[j].paths) : accounts[j].paths[k] \in paths) } }

\* AccountsBL.get_ledger_accounts_tree: path -> the accounts with that path.
get_ledger_accounts_tree(l) ==
  [p \in { a.path : a \in get_ledger_accounts(l, {}) } |->
     { a \in get_ledger_accounts(l, {}) : a.path = p }]

\* POST: NewAccount validates the body, AccountsDAL.create_account inserts.
CreateAccount(s, l, name, rawpath) ==
  /\ CanBegin(s)
  /\ Cardinality(DOMAIN accounts) < Cardinality(AccountIds)
  /\ LET r == NewReq("account", "create", l, FreshId(accounts, AccountIds), NoTime,
                     [name |-> name, path |-> rawpath])
         v == NewAccount_validate_path(rawpath)
         row == [id |-> r.id, ledger_id |-> l, name |-> name, path |-> v.path,
                 paths |-> split_path(v.path), created_at |-> clock,
                 updated_at |-> clock, deleted_at |-> NoTime]
     IN IF ~v.ok
        THEN /\ Ends(s, [r EXCEPT !.result = "ValidationError"])
             /\ UNCHANGED accounts
        ELSE IF AccountIndexClash(accounts, r.id, row)
        THEN /\ Ends(s, [r EXCEPT !.result = "Conflict", !.clash = TRUE])
             /\ UNCHANGED accounts
        ELSE /\ accounts' = (r.id :> row) @@ accounts
             /\ Ends(s, [r EXCEPT !.result = "ok", !.wrote = TRUE, !.ts = clock,
                                  !.returned = {row}])
  /\ UNCHANGED <<ledgers, commodities, transactions, clock>>

\* AccountUpdate validates the body (a name, a path or both); then
\* update_ledger_account looks the account up and compares timestamps.
UpdateAccountLookup(s, l, id, exp, patch) ==
  /\ CanBegin(s)
  /\ LET r == NewReq("account", "update", l, id, exp, patch)
         valid == "path" \in DOMAIN patch => AccountUpdate_validate_path(patch.path).ok
         found == FindLedgerAccount(l, id)
     IN IF ~valid
        THEN Ends(s, [r EXCEPT !.result = "ValidationError"])
        ELSE IF found = {}
        THEN Ends(s, [r EXCEPT !.result = "NotFound"])
        ELSE LET row == CHOOSE x \in found : TRUE
                 q == [r EXCEPT !.found = TRUE, !.seen = row.updated_at,
                                !.t_lookup = clock]
             IN IF exp # NoTime /\ row.updated_at > exp
                THEN Ends(s, [q EXCEPT !.result = "PreconditionFailed"])
                ELSE Goes(s, [q EXCEPT !.pc = "write"])
  /\ UNCHANGED <<ledgers, accounts, commodities, transactions, clock>>

\* A faulty update_data: a new path without its parsed paths.
AccountUpdateDataStalePaths(patch, ts) ==
  LET fields == IF "path" \in DOMAIN patch
                THEN [patch EXCEPT !.path = AccountUpdate_validate_path(patch.path).path]
                ELSE patch
  IN fields @@ [updated_at |-> ts]

\* update_data: the validated fields of the body, updated_at = now() and,
\* with a path, its parsed paths.
AccountUpdateData(patch, ts) ==
  LET fields == IF "path" \in DOMAIN patch
                THEN [patch EXCEPT !.path = AccountUpdate_validate_path(patch.path).path]
                ELSE patch
      stamped == fields @@ [updated_at |-> ts]
  IN IF "path" \in DOMAIN patch
     THEN stamped @@ [paths |-> parse_path(stamped.path)]
     ELSE stamped

\* A faulty Set: a write that stamps updated_at loses created_at.
SetFieldsLosingCreatedAt(row, data) ==
  [f \in DOMAIN row |->
     IF f \in DOMAIN data THEN data[f]
     ELSE IF f = "created_at" /\ "updated_at" \in DOMAIN data THEN NoTime
     ELSE row[f]]

\* Set(update_data) on a document.
SetFields(row, data) == [f \in DOMAIN row |-> IF f \in DOMAIN data THEN data[f] ELSE row[f]]

\* The filter of the conditional write: the lookup's filter and, with an
\* expected timestamp, updated_at == expected.
AccountWriteMatches(r) ==
  /\ FindLedgerAccount(r.ledger_id, r.id) # {}
  /\ r.exp # NoTime => accounts[r.id].updated_at = r.exp

\* The conditional write of update_ledger_account.  The DuplicateKeyError of
\* the unique index is not caught here: it leaves the document as it was and
\* reaches the caller as an internal error.
UpdateAccountWrite(s) ==
  /\ reqs[s] # Idle
  /\ reqs[s].kind = "account" /\ reqs[s].op = "update" /\ reqs[s].pc = "write"
  /\ \E ts \in Readings(reqs[s]) :
       LET r == [reqs[s] EXCEPT !.ts = ts]
       IN IF ~AccountWriteMatches(r)
          THEN /\ Ends(s, [r EXCEPT !.result = "PreconditionFailed"])
               /\ UNCHANGED accounts
          ELSE LET row == SetFields(accounts[r.id], AccountUpdateData(r.patch, ts))
               IN IF AccountIndexClash(accounts, r.id, row)
                  THEN /\ Ends(s, [r EXCEPT !.result = "ServerError", !.clash = TRUE])
                       /\ UNCHANGED accounts
                  ELSE /\ accounts' = [accounts EXCEPT ![r.id] = row]
                       /\ Goes(s, [r EXCEPT !.pc = "reread", !.wrote = TRUE])
  /\ UNCHANGED <<ledgers, commodities, transactions, clock>>

\* return await self.get_by_id(account_id).
UpdateAccountReread(s) ==
  /\ reqs[s] # Idle
  /\ reqs[s].kind = "account" /\ reqs[s].op = "update" /\ reqs[s].pc = "reread"
  /\ LET got == get_by_id(reqs[s].id)
     IN Ends(s, [reqs[s] EXCEPT !.result = got.result, !.returned = got.returned])
  /\ UNCHANGED <<ledgers, accounts, commodities, transactions, clock>>

\* delete_ledger_account: the lookup and the timestamp comparison.
DeleteAccountLookup(s, l, id, exp) ==
  /\ CanBegin(s)
  /\ LET r == NewReq("account", "delete", l, id, exp, [deleted |-> TRUE])
         found == FindLedgerAccount(l, id)
     IN IF found = {}
        THEN Ends(s, [r EXCEPT !.result = "NotFound"])
        ELSE LET row == CHOOSE x \in found : TRUE
                 q == [r EXCEPT !.found = TRUE, !.seen = row.updated_at,
                                !.t_lookup = clock]
             IN IF exp # NoTime /\ row.updated_at > exp
                THEN Ends(s, [q EXCEPT !.result = "PreconditionFailed"])
                ELSE Goes(s, [q EXCEPT !.pc = "write"])
  /\ UNCHANGED <<ledgers, accounts, commodities, transactions, clock>>

\* delete_ledger_account: Set({"deleted_at": now()}) under the same filter.
DeleteAccountWrite(s) ==
  /\ reqs[s] # Idle
  /\ reqs[s].kind = "account" /\ reqs[s].op = "delete" /\ reqs[s].pc = "write"
  /\ \E ts \in Readings(reqs[s]) :
       LET r == [reqs[s] EXCEPT !.ts = ts]
       IN IF ~AccountWriteMatches(r)
          THEN /\ Ends(s, [r EXCEPT !.result = "PreconditionFailed"])
               /\ UNCHANGED accounts
          ELSE /\ accounts' = [accounts EXCEPT ![r.id] = SetFields(@, [deleted_at |-> ts])]
               /\ Ends(s, [r EXCEPT !.result = "ok", !.wrote = TRUE])
  /\ UNCHANGED <<ledgers, commodities, transactions, clock>>

(***************************************************************************)
(* domain/ledgers.py: LedgersDAL.  A ledger is never deleted by the API,    *)
(* but every query filters on deleted_at all the same.                     *)
(***************************************************************************)
\* A ledgers collection declared without the index: no write ever clashes.
LedgerIndexAbsent(coll, id, row) == FALSE

\* The unique index of the ledgers collection: name.
LedgerIndexClash(coll, id, row) ==
  \E j \in DOMAIN coll \ {id} : coll[j].name = row.name

FindLedger(id) ==
  IF id \in DOMAIN ledgers /\ Active(ledgers[id]) THEN {ledgers[id]} ELSE {}

\* LedgersDAL.get_ledger: the ledger, or ObjectNotFound.
get_ledger(id) ==
  IF FindLedger(id) = {} THEN [result |-> "NotFound", returned |-> {}]
  ELSE [result |-> "ok", returned |-> FindLedger(id)]

\* LedgersDAL.get_ledgers.
get_ledgers == { ledgers[i] : i \in { j \in DOMAIN ledgers : Active(ledgers[j]) } }

\* LedgersDAL.exists: no filter on deleted_at.
exists(id) == id \in DOMAIN ledgers

\* LedgersDAL.create_ledger.
CreateLedger(s, name) ==
  /\ CanBegin(s)
  /\ Cardinality(DOMAIN ledgers) < Cardinality(LedgerIds)
  /\ LET r == NewReq("ledger", "create", FreshId(ledgers, LedgerIds), FreshId(ledgers, LedgerIds), NoTime,
                     [name |-> name])
         row == [id |-> r.id, name |-> name, description |-> "none",
                 created_at |-> clock, updated_at |-> clock, deleted_at |-> NoTime]
     IN IF LedgerIndexClash(ledgers, r.id, row)
        THEN /\ Ends(s, [r EXCEPT !.result = "Conflict", !.clash = TRUE])
             /\ UNCHANGED ledgers
        ELSE /\ ledgers' = (r.id :> row) @@ ledgers
             /\ Ends(s, [r EXCEPT !.result = "ok", !.wrote = TRUE, !.ts = clock,
                                  !.returned = {row}])
  /\ UNCHANGED <<accounts, commodities, transactions, clock>>

\* update_ledger up to the timestamp comparison.  A body that sets no field
\* raises ValueError, which no handler maps: an internal error.
UpdateLedgerLookup(s, id, exp, patch) ==
  /\ CanBegin(s)
  /\ LET r == NewReq("ledger", "update", id, id, exp, patch)
         found == FindLedger(id)
     IN IF DOMAIN patch = {}
        THEN Ends(s, [r EXCEPT !.result = "ServerError"])
        ELSE IF found = {}
        THEN Ends(s, [r EXCEPT !.result = "NotFound"])
        ELSE LET row == CHOOSE x \in found : TRUE
                 q == [r EXCEPT !.found = TRUE, !.seen = row.updated_at,
                                !.t_lookup = clock]
             IN IF exp # NoTime /\ row.updated_at > exp
                THEN Ends(s, [q EXCEPT !.result = "PreconditionFailed"])
                ELSE Goes(s, [q EXCEPT !.pc = "write"])
  /\ UNCHANGED <<ledgers, accounts, commodities, transactions, clock>>

LedgerWriteMatches(r) ==
  /\ FindLedger(r.id) # {}
  /\ r.exp # NoTime => ledgers[r.id].updated_at = r.exp

\* The conditional write of update_ledger; a DuplicateKeyError is not caught.
UpdateLedgerWrite(s) ==
  /\ reqs[s] # Idle
  /\ reqs[s].kind = "ledger" /\ reqs[s].op = "update" /\ reqs[s].pc = "write"
  /\ \E ts \in Readings(reqs[s]) :
       LET r == [reqs[s] EXCEPT !.ts = ts]
       IN IF ~LedgerWriteMatches(r)
          THEN /\ Ends(s, [r EXCEPT !.result = "PreconditionFailed"])
               /\ UNCHANGED ledgers
          ELSE LET row == SetFields(ledgers[r.id], r.patch @@ [updated_at |-> ts])
               IN IF LedgerIndexClash(ledgers, r.id, row)
                  THEN /\ Ends(s, [r EXCEPT !.result = "ServerError", !.clash = TRUE])
                       /\ UNCHANGED ledgers
                  ELSE /\ ledgers' = [ledgers EXCEPT ![r.id] = row]
                       /\ Goes(s, [r EXCEPT !.pc = "reread", !.wrote = TRUE])
  /\ UNCHANGED <<accounts, commodities, transactions, clock>>

\* return await self.get_ledger(ledger_id).
UpdateLedgerReread(s) ==
  /\ reqs[s] # Idle
  /\ reqs[s].kind = "ledger" /\ reqs[s].op = "update" /\ reqs[s].pc = "reread"
  /\ LET got == get_ledger(reqs[s].id)
     IN Ends(s, [reqs[s] EXCEPT !.result = got.result, !.returned = got.returned])
  /\ UNCHANGED <<ledgers, accounts, commodities, transactions, clock>>

(***************************************************************************)
(* domain/commodities.py: CommoditiesDAL.  Awaiting find_one(..).update_one *)
(* yields the driver's update result, an object that is neither None nor    *)
(* falsy whether or not a document matched.                                 *)
(***************************************************************************)
\* The unique index of the commodities collection: (ledger_id, code).
CommodityIndexClash(coll, id, row) ==
  \E j \in DOMAIN coll \ {id} :
    coll[j].ledger_id = row.ledger_id /\ coll[j].code = row.code

FindLedgerCommodity(l, id) ==
  IF id \in DOMAIN commodities /\ commodities[id].ledger_id = l /\ Active(commodities[id])
  THEN {commodities[id]} ELSE {}

\* CommoditiesDAL.get_by_id.
commodity_get_by_id(id) ==
  IF id \in DOMAIN commodities /\ Active(commodities[id])
  THEN [result |-> "ok", returned |-> {commodities[id]}]
  ELSE [result |-> "NotFound", returned |-> {}]

\* CommoditiesDAL.get_ledger_commodity_by_id.
get_ledger_commodity_by_id(l, id) ==
  IF FindLedgerCommodity(l, id) = {} THEN [result |-> "NotFound", returned |-> {}]
  ELSE [result |-> "ok", returned |-> FindLedgerCommodity(l, id)]

\* CommoditiesDAL.get_ledger_commodities.
get_ledger_commodities(l) ==
  { commodities[i] : i \in { j \in DOMAIN commodities :
      commodities[j].ledger_id = l /\ Active(commodities[j]) } }

\* CommoditiesDAL.create.
CreateCommodity(s, l, name, code) ==
  /\ CanBegin(s)
  /\ Cardinality(DOMAIN commodities) < Cardinality(CommodityIds)
  /\ LET r == NewReq("commodity", "create", l, FreshId(commodities, CommodityIds), NoTime,
                     [name |-> name, code |-> code])
         row == [id |-> r.id, ledger_id |-> l, name |-> name, code |-> code,
                 created_at |-> clock, updated_at |-> clock, deleted_at |-> NoTime]
     IN IF CommodityIndexClash(commodities, r.id, row)
        THEN /\ Ends(s, [r EXCEPT !.result = "Conflict", !.clash = TRUE])
             /\ UNCHANGED commodities
        ELSE /\ commodities' = (r.id :> row) @@ commodities
             /\ Ends(s, [r EXCEPT !.result = "ok", !.wrote = TRUE, !.ts = clock,
                                  !.returned = {row}])
  /\ UNCHANGED <<ledgers, accounts, transactions, clock>>

\* update_ledger_commodity: one filtered write.  UpdateCommodity requires
\* every field and updated_at; the write sets them all, updated_at included,
\* to the values of the body.  A write that matches no document changes
\* nothing and the handler goes on to the read.
UpdateCommodityWrite(s, l, id, body) ==
  /\ CanBegin(s)
  /\ LET r == [NewReq("commodity", "update", l, id, body.updated_at, body)
                 EXCEPT !.t_lookup = clock, !.ts = body.updated_at]
         found == FindLedgerCommodity(l, id)
         matches == found # {} /\ commodities[id].updated_at = body.updated_at
     IN IF ~matches
        THEN /\ Goes(s, [r EXCEPT !.pc = "reread", !.found = found # {}])
             /\ UNCHANGED commodities
        ELSE LET row == SetFields(commodities[id], body)
             IN IF CommodityIndexClash(commodities, id, row)
                THEN /\ Ends(s, [r EXCEPT !.result = "Conflict", !.found = TRUE, !.clash = TRUE,
                                          !.seen = commodities[id].updated_at])
                     /\ UNCHANGED commodities
                ELSE /\ commodities' = [commodities EXCEPT ![id] = row]
                     /\ Goes(s, [r EXCEPT !.pc = "reread", !.found = TRUE, !.wrote = TRUE,
                                          !.seen = commodities[id].updated_at])
  /\ UNCHANGED <<ledgers, accounts, transactions, clock>>

\* return await self.get_by_id(commodity_id).
UpdateCommodityReread(s) ==
  /\ reqs[s] # Idle
  /\ reqs[s].kind = "commodity" /\ reqs[s].op = "update" /\ reqs[s].pc = "reread"
  /\ LET got == commodity_get_by_id(reqs[s].id)
     IN Ends(s, [reqs[s] EXCEPT !.result = got.result, !.returned = got.returned])
  /\ UNCHANGED <<ledgers, accounts, commodities, transactions, clock>>

\* delete_ledger_commodity_by_id: one filtered write and no timestamp; the
\* result of the write is always truthy, so the handler returns normally.
DeleteCommodity(s, l, id, exp) ==
  /\ CanBegin(s)
  /\ LET r == [NewReq("commodity", "delete", l, id, exp, [deleted |-> TRUE])
                 EXCEPT !.t_lookup = clock, !.ts = clock]
         found == FindLedgerCommodity(l, id)
     IN IF found = {}
        THEN /\ Ends(s, [r EXCEPT !.result = "ok"])
             /\ UNCHANGED commodities
        ELSE /\ commodities' = [commodities EXCEPT ![id] = SetFields(@, [deleted_at |-> clock])]
             /\ Ends(s, [r EXCEPT !.result = "ok", !.found = TRUE, !.wrote = TRUE,
                                  !.seen = commodities[id].updated_at])
  /\ UNCHANGED <<ledgers, accounts, transactions, clock>>

(***************************************************************************)
(* domain/transactions.py: TransactionsDAL.                                *)
(***************************************************************************)
FindLedgerTransaction(l, id) ==
  IF id \in DOMAIN transactions /\ transactions[id].ledger_id = l /\ Active(transactions[id])
  THEN {transactions[id]} ELSE {}

\* A read model without the validator: the document as it is stored.
Transaction_model_construct(row) == [result |-> "ok", returned |-> {row}]

\* Transaction.model_validate: Transaction inherits check_details.
Transaction_model_validate(row) ==
  LET c == check_details(row.details)
  IN IF c = "ok" THEN [result |-> "ok", returned |-> {row}]
     ELSE IF c = "ZeroDivisionError" THEN [result |-> "ServerError", returned |-> {}]
     ELSE [result |-> c, returned |-> {}]

\* TransactionsDAL.get_transaction.
get_transaction(id) ==
  IF id \in DOMAIN transactions /\ Active(transactions[id])
  THEN Transaction_model_validate(transactions[id])
  ELSE [result |-> "NotFound", returned |-> {}]

\* TransactionsDAL.get_ledger_transaction.
get_ledger_transaction(l, id) ==
  IF FindLedgerTransaction(l, id) = {} THEN [result |-> "NotFound", returned |-> {}]
  ELSE Transaction_model_validate(transactions[id])

\* TransactionsDAL.find_ledger_transactions with no optional filter: the
\* documents the query selects, before they are validated.
find_ledger_transactions(l) ==
  { transactions[i] : i \in { j \in DOMAIN transactions :
      transactions[j].ledger_id = l /\ Active(transactions[j]) } }

\* POST: NewTransaction validates the body, the controller asks
\* LedgersDAL.exists, create_transaction inserts and reads the document back.
\* The id is fresh and known to nobody before the response, so the insert and
\* the read are one step.
CreateTransaction(s, l, description, date_time, details) ==
  /\ CanBegin(s)
  /\ Cardinality(DOMAIN transactions) < Cardinality(TransactionIds)
  /\ LET r == [NewReq("transaction", "create", l, FreshId(transactions, TransactionIds),
                      NoTime, [description |-> description, date_time |-> date_time,
                              details |-> details])
                 EXCEPT !.found = exists(l)]
         c == check_details(details)
         row == [id |-> r.id, ledger_id |-> l, description |-> description,
                 date_time |-> date_time, details |-> details,
                 created_at |-> clock, updated_at |-> clock, deleted_at |-> NoTime]
     IN IF c # "ok"
        THEN /\ Ends(s, [r EXCEPT !.result =
                           IF c = "ZeroDivisionError" THEN "ServerError" ELSE c])
             /\ UNCHANGED transactions
        ELSE IF ~exists(l)
        THEN /\ Ends(s, [r EXCEPT !.result = "NotFound"])
             /\ UNCHANGED transactions
        ELSE /\ transactions' = (r.id :> row) @@ transactions
             /\ Ends(s, [r EXCEPT !.result = "ok", !.wrote = TRUE, !.ts = clock,
                                  !.returned = {row}])
  /\ UNCHANGED <<ledgers, accounts, commodities, clock>>

\* update_ledger_transaction up to the timestamp comparison.  UpdateTransaction
\* has no validator: any list of details is accepted.
UpdateTransactionLookup(s, l, id, exp, patch) ==
  /\ CanBegin(s)
  /\ LET r == NewReq("transaction", "update", l, id, exp, patch)
         found == FindLedgerTransaction(l, id)
     IN IF found = {}
        THEN Ends(s, [r EXCEPT !.result = "NotFound"])
        ELSE LET row == CHOOSE x \in found : TRUE
                 q == [r EXCEPT !.found = TRUE, !.seen = row.updated_at,
                                !.t_lookup = clock]
             IN IF exp # NoTime /\ row.updated_at > exp
                THEN Ends(s, [q EXCEPT !.result = "PreconditionFailed"])
                ELSE Goes(s, [q EXCEPT !.pc = "write"])
  /\ UNCHANGED <<ledgers, accounts, commodities, transactions, clock>>

TransactionWriteMatches(r) ==
  /\ FindLedgerTransaction(r.ledger_id, r.id) # {}
  /\ r.exp # NoTime => transactions[r.id].updated_at = r.exp

\* The conditional write of update_ledger_transaction.
UpdateTransactionWrite(s) ==
  /\ reqs[s] # Idle
  /\ reqs[s].kind = "transaction" /\ reqs[s].op = "update" /\ reqs[s].pc = "write"
  /\ \E ts \in Readings(reqs[s]) :
       LET r == [reqs[s] EXCEPT !.ts = ts]
       IN IF ~TransactionWriteMatches(r)
          THEN /\ Ends(s, [r EXCEPT !.result = "PreconditionFailed"])
               /\ UNCHANGED transactions
          ELSE /\ transactions' = [transactions EXCEPT ![r.id] =
                                     SetFields(@, r.patch @@ [updated_at |-> ts])]
               /\ Goes(s, [r EXCEPT !.pc = "reread", !.wrote = TRUE])
  /\ UNCHANGED <<ledgers, accounts, commodities, clock>>

\* return await self.get_transaction(transaction_id): the stored document is
\* validated as a Transaction, balance included.
UpdateTransactionReread(s) ==
  /\ reqs[s] # Idle
  /\ reqs[s].kind = "transaction" /\ reqs[s].op = "update" /\ reqs[s].pc = "reread"
  /\ LET got == get_transaction(reqs[s].id)
     IN Ends(s, [reqs[s] EXCEPT !.result = got.result, !.returned = got.returned])
  /\ UNCHANGED <<ledgers, accounts, commodities, transactions, clock>>

\* delete_ledger_transaction: the lookup and the timestamp comparison.
DeleteTransactionLookup(s, l, id, exp) ==
  /\ CanBegin(s)
  /\ LET r == NewReq("transaction", "delete", l, id, exp, [deleted |-> TRUE])
         found == FindLedgerTransaction(l, id)
     IN IF found = {}
        THEN Ends(s, [r EXCEPT !.result = "NotFound"])
        ELSE LET row == CHOOSE x \in found : TRUE
                 q == [r EXCEPT !.found = TRUE, !.seen = row.updated_at,
                                !.t_lookup = clock]
             IN IF exp # NoTime /\ row.updated_at > exp
                THEN Ends(s, [q EXCEPT !.result = "PreconditionFailed"])
                ELSE Goes(s, [q EXCEPT !.pc = "write"])
  /\ UNCHANGED <<ledgers, accounts, commodities, transactions, clock>>

\* delete_ledger_transaction: Set({"deleted_at": now()}) under the filter.
DeleteTransactionWrite(s) ==
  /\ reqs[s] # Idle
  /\ reqs[s].kind = "transaction" /\ reqs[s].op = "delete" /\ reqs[s].pc = "write"
  /\ \E ts \in Readings(reqs[s]) :
       LET r == [reqs[s] EXCEPT !.ts = ts]
       IN IF ~TransactionWriteMatches(r)
          THEN /\ Ends(s, [r EXCEPT !.result = "PreconditionFailed"])
               /\ UNCHANGED transactions
          ELSE /\ transactions' = [transactions EXCEPT ![r.id] = SetFields(@, [deleted_at |-> ts])]
               /\ Ends(s, [r EXCEPT !.result = "ok", !.wrote = TRUE])
  /\ UNCHANGED <<ledgers, accounts, commodities, clock>>

(***************************************************************************)
(* The clock: now() never goes back, and two readings may be equal.        *)
(***************************************************************************)
Tick ==
  /\ clock < MaxClock
  /\ clock' = clock + 1
  /\ UNCHANGED <<ledgers, accounts, commodities, transactions, reqs, hist, calc>>

NoCalc == [fn |-> "none", pc |-> "idle"]

Init ==
  /\ ledgers = <<>>
  /\ accounts = <<>>
  /\ commodities = <<>>
  /\ transactions = <<>>
  /\ clock = 0
  /\ reqs = [s \in Slots |-> Idle]
  /\ hist = <<>>
  /\ calc = NoCalc

\* Request bodies and timestamps the clients send.
NewAccountBodies ==
  { [name |-> "n1", path |-> <<"Assets">>],
    [name |-> "n2", path |-> <<"Assets", ":", "Cash", ":">>],
    [name |-> "n1", path |-> <<"Unknown", ":", "Cash">>] }
AccountPatches ==
  { [name |-> "n2"], [path |-> <<"Unknown", ":", "Cash">>],
    [name |-> "n1", path |-> <<"Assets", ":">>] }
Expected == {NoTime} \cup (0 .. clock)

NextAccount ==
  \/ Tick
  \/ \E s \in Slots, l \in LedgerIds, b \in NewAccountBodies : CreateAccount(s, l, b.name, b.path)
  \/ \E s \in Slots, l \in LedgerIds, i \in AccountIds, e \in Expected, p \in AccountPatches :
       UpdateAccountLookup(s, l, i, e, p)
  \/ \E s \in Slots : UpdateAccountWrite(s)
  \/ \E s \in Slots : UpdateAccountReread(s)
  \/ \E s \in Slots, l \in LedgerIds, i \in AccountIds, e \in Expected : DeleteAccountLookup(s, l, i, e)
  \/ \E s \in Slots : DeleteAccountWrite(s)

SpecAccount == Init /\ [][NextAccount]_vars

LedgerNames == {"n1", "n2"}
LedgerPatches == { [name |-> "n2"], [description |-> "d"], [x \in {} |-> "d"] }

NextLedger ==
  \/ Tick
  \/ \E s \in Slots, n \in LedgerNames : CreateLedger(s, n)
  \/ \E s \in Slots, i \in LedgerIds, e \in Expected, p \in LedgerPatches :
       UpdateLedgerLookup(s, i, e, p)
  \/ \E s \in Slots : UpdateLedgerWrite(s)
  \/ \E s \in Slots : UpdateLedgerReread(s)

SpecLedger == Init /\ [][NextLedger]_vars

NewCommodityBodies == { [name |-> "n1", code |-> "c1"], [name |-> "n2", code |-> "c2"] }
UpdateCommodityBodies ==
  { [name |-> b.name, code |-> b.code, updated_at |-> e] :
      b \in { [name |-> "n2", code |-> "c1"], [name |-> "n1", code |-> "c2"] },
      e \in 0 .. clock }

NextCommodity ==
  \/ Tick
  \/ \E s \in Slots, l \in LedgerIds, b \in NewCommodityBodies : CreateCommodity(s, l, b.name, b.code)
  \/ \E s \in Slots, l \in LedgerIds, i \in CommodityIds, b \in UpdateCommodityBodies :
       UpdateCommodityWrite(s, l, i, b)
  \/ \E s \in Slots : UpdateCommodityReread(s)
  \/ \E s \in Slots, l \in LedgerIds, i \in CommodityIds, e \in Expected :
       DeleteCommodity(s, l, i, e)

SpecCommodity == Init /\ [][NextCommodity]_vars

\* The three collections with a uniqueness rule, side by side: creates,
\* unconditional updates and deletes of ledgers, accounts and commodities.
NextUnique ==
  \/ \E s \in Slots, n \in LedgerNames : CreateLedger(s, n)
  \/ \E s \in Slots, i \in LedgerIds : UpdateLedgerLookup(s, i, NoTime, [name |-> "n2"])
  \/ \E s \in Slots : UpdateLedgerWrite(s)
  \/ \E s \in Slots : UpdateLedgerReread(s)
  \/ \E s \in Slots, l \in LedgerIds, b \in NewAccountBodies : CreateAccount(s, l, b.name, b.path)
  \/ \E s \in Slots, l \in LedgerIds, i \in AccountIds, p \in AccountPatches :
       UpdateAccountLookup(s, l, i, NoTime, p)
  \/ \E s \in Slots : UpdateAccountWrite(s)
  \/ \E s \in Slots : UpdateAccountReread(s)
  \/ \E s \in Slots, l \in LedgerIds, i \in AccountIds : DeleteAccountLookup(s, l, i, NoTime)
  \/ \E s \in Slots : DeleteAccountWrite(s)
  \/ \E s \in Slots, l \in LedgerIds, b \in NewCommodityBodies : CreateCommodity(s, l, b.name, b.code)
  \/ \E s \in Slots, l \in LedgerIds, i \in CommodityIds, b \in UpdateCommodityBodies :
       UpdateCommodityWrite(s, l, i, b)
  \/ \E s \in Slots : UpdateCommodityReread(s)
  \/ \E s \in Slots, l \in LedgerIds, i \in CommodityIds : DeleteCommodity(s, l, i, NoTime)

SpecUnique == Init /\ [][NextUnique]_vars

\* GET of the accounts of a ledger under a path filter: one read.
GetLedgerAccounts(s, l, paths) ==
  /\ CanBegin(s)
  /\ LET r == [NewReq("account", "list", l, l, NoTime, [paths |-> paths])
                 EXCEPT !.t_lookup = clock]
     IN Ends(s, [r EXCEPT !.result = "ok", !.returned = get_ledger_accounts(l, paths)])
  /\ UNCHANGED <<ledgers, accounts, commodities, transactions, clock>>

\* An account document as create_account stores it, soft-deleted or not.
StoredAccount(id, l, name, rawpath, deleted) ==
  [id |-> id, ledger_id |-> l, name |-> name,
   path |-> NewAccount_validate_path(rawpath).path,
   paths |-> split_path(NewAccount_validate_path(rawpath).path),
   created_at |-> 0, updated_at |-> 0,
   deleted_at |-> IF deleted THEN 0 ELSE NoTime]

\* The paths of the stored accounts and the filters the clients send.
StoredPaths ==
  { <<"Assets">>, <<"Assets", ":", "Cash">>, <<"Assets", ":", "Cash", "Other">>,
    <<"Assets", ":", "Cash", ":", "Other">> }
FilterPaths ==
  { <<"Assets">>, <<"Assets", ":", "Cash">>, <<"Cash">>, <<"Assets", ":">>, <<>> }
AccountNames == [i \in AccountIds |-> IF i = 1 THEN "n1" ELSE "n2"]

\* The accounts collection after any run of creates and deletes.
InitAccountQuery ==
  /\ ledgers = <<>>
  /\ commodities = <<>>
  /\ transactions = <<>>
  /\ \E D \in SUBSET AccountIds :
       \E f \in [D -> [ledger_id : LedgerIds, path : StoredPaths, deleted : BOOLEAN]] :
         accounts = [i \in D |->
           StoredAccount(i, f[i].ledger_id, AccountNames[i], f[i].path, f[i].deleted)]
  /\ clock = 0
  /\ reqs = [s \in Slots |-> Idle]
  /\ hist = <<>>
  /\ calc = NoCalc

NextAccountQuery ==
  \E s \in Slots, l \in LedgerIds, p \in FilterPaths : GetLedgerAccounts(s, l, {p})

SpecAccountQuery == InitAccountQuery /\ [][NextAccountQuery]_vars

\* Details: [account_id, commodity_id, amount, price].
Plain(a, c, n) == [account_id |-> a, commodity_id |-> c, amount |-> n, price |-> NoPrice]
Priced(a, c, n, pc, num, den) ==
  [account_id |-> a, commodity_id |-> c, amount |-> n,
   price |-> [commodity_id |-> pc, numerator |-> num, denominator |-> den]]
DetailLists ==
  { <<Plain(1, 1, 1), Plain(2, 1, 0 - 1)>>,
    <<Plain(1, 1, 1), Plain(2, 2, 0 - 1)>>,
    <<Plain(1, 1, 1)>>,
    <<Plain(1, 1, 2), Plain(2, 1, 0 - 1)>>,
    <<>>,
    <<Priced(1, 1, 2, 2, 1, 2), Plain(2, 2, 0 - 1)>>,
    <<Priced(1, 1, 2, 2, 1, 2), Plain(2, 1, 0 - 2)>>,
    <<Priced(1, 1, 1, 2, 1, 2), Plain(2, 2, 0 - 1)>>,
    <<Priced(1, 1, 1, 2, 1, 0), Plain(2, 2, 0 - 1)>> }
TransactionPatches ==
  { [description |-> "d2"], [details |-> <<Plain(1, 1, 1)>>],
    [details |-> <<Plain(1, 1, 2), Plain(2, 1, 0 - 2)>>] }

NextTransaction ==
  \/ Tick
  \/ \E s \in Slots : CreateLedger(s, "n1")
  \/ \E s \in Slots, l \in LedgerIds, d \in DetailLists :
       CreateTransaction(s, l, "d1", 0, d)
  \/ \E s \in Slots, l \in LedgerIds, i \in TransactionIds, e \in Expected, p \in TransactionPatches :
       UpdateTransactionLookup(s, l, i, e, p)
  \/ \E s \in Slots : UpdateTransactionWrite(s)
  \/ \E s \in Slots : UpdateTransactionReread(s)
  \/ \E s \in Slots, l \in LedgerIds, i \in TransactionIds, e \in Expected :
       DeleteTransactionLookup(s, l, i, e)
  \/ \E s \in Slots : DeleteTransactionWrite(s)

SpecTransaction == Init /\ [][NextTransaction]_vars

(***************************************************************************)
(* The list of the transactions of a ledger: controller, TransactionsBL    *)
(* and TransactionsDAL.find_ledger_transactions with its filters, its      *)
(* ordering and its page.  A value the client may leave out is a set that   *)
(* is empty (None) or holds the value.                                      *)
(***************************************************************************)
MaxStored == 2
MaxDate == 2
MaxQueries == 2

Signs == {"+", "-", "="}

\* TransactionsBL.group_accounts: the filter strings by their first
\* character, which is dropped; a string with no sign goes with "=".
group_accounts(selected_accounts) ==
  [sign \in Signs |->
     { Tail(selected_accounts[k]) : k \in { j \in 1..Len(selected_accounts) :
         selected_accounts[j] # <<>> /\ selected_accounts[j][1] = sign } }
     \cup (IF sign = "="
           THEN { selected_accounts[k] : k \in { j \in 1..Len(selected_accounts) :
                    selected_accounts[j] = <<>> \/ selected_accounts[j][1] \notin Signs } }
           ELSE {})]

\* ElemMatch(details, {"price": {"$ne": None}}).
HasPricedDetail(row) ==
  \E k \in 1..Len(row.details) : row.details[k].price # NoPrice

\* exchange is True.
ExchangeTrue(row) == HasPricedDetail(row)

\* The filter left as a comment beside exchange is False: no detail whose
\* price is None.
ExchangeFalseNoPlainDetail(row) ==
  ~(\E k \in 1..Len(row.details) : row.details[k].price = NoPrice)

\* exchange is False: Not(ElemMatch(details, {"price": {"$ne": None}})).
ExchangeFalse(row) == ~HasPricedDetail(row)

\* The $elemMatch of one (sign, account id) pair.
AccountElemMatch(row, sign, account_id) ==
  \E k \in 1..Len(row.details) :
    /\ row.details[k].account_id = account_id
    /\ sign = "+" => row.details[k].amount > 0
    /\ sign = "-" => row.details[k].amount < 0

\* compiled_filters: the pairs of one sign are joined by $or, the signs that
\* have pairs by $and; with no pair at all no filter is added.
AccountsFilter(row, accounts_ids) ==
  \A sign \in Signs :
    LET ids == { x[2] : x \in { y \in accounts_ids : y[1] = sign } }
    IN ids # {} => \E a \in ids : AccountElemMatch(row, sign, a)

\* The documents the request selects before skip and limit.
MatchedTransactions(l, accounts_ids, after, before, exchange) ==
  { i \in DOMAIN transactions :
      /\ transactions[i].ledger_id = l
      /\ Active(transactions[i])
      /\ \A a \in after : transactions[i].date_time >= a
      /\ \A b \in before : transactions[i].date_time < b
      /\ TRUE \in exchange => ExchangeTrue(transactions[i])
      /\ FALSE \in exchange => ExchangeFalse(transactions[i])
      /\ AccountsFilter(transactions[i], accounts_ids) }

\* sort(order_by.value): the orders the server may return the documents in.
\* The sort key is date_time alone, so documents of one date_time come in
\* an order the server chooses anew for each query.
SortedOrders(ids, order_by) ==
  { f \in [1..Cardinality(ids) -> ids] :
      /\ \A i \in DOMAIN f : \A j \in DOMAIN f : i # j => f[i] # f[j]
      /\ \A i \in DOMAIN f : \A j \in DOMAIN f :
           i < j => IF order_by = "+date_time"
                    THEN transactions[f[i]].date_time <= transactions[f[j]].date_time
                    ELSE transactions[f[i]].date_time >= transactions[f[j]].date_time }

\* skip(skip).limit(limit): the driver reads a limit of 0 as no limit.
PageLength(n, skip, limit) ==
  IF skip >= n THEN 0
  ELSE IF limit = 0 \/ limit > n - skip THEN n - skip
  ELSE limit

\* TransactionsDAL.find_ledger_transactions: count, then the page, then the
\* validation of the documents of the page.
TransactionsDAL_find_ledger_transactions(l, accounts_ids, after, before, exchange, limit, skip, order_by) ==
  LET ids == MatchedTransactions(l, accounts_ids, after, before, exchange)
      count == Cardinality(ids)
      m == PageLength(count, skip, limit)
  IN { LET page == [k \in 1..m |-> transactions[f[skip + k]]]
           bad == { k \in 1..m : check_details(page[k].details) # "ok" }
       IN IF bad # {}
          THEN [result |-> "ValidationError", transactions |-> <<>>, count |-> count]
          ELSE [result |-> "ok", transactions |-> page, count |-> count]
       : f \in SortedOrders(ids, order_by) }

\* TransactionsBL.find_ledger_transactions: the paths of each sign are
\* resolved to the accounts of the ledger, and the accounts to (sign, id).
TransactionsBL_find_ledger_transactions(l, selected_accounts, after, before, exchange, skip, limit, order_by) ==
  LET grouped_accounts == group_accounts(selected_accounts)
      ledger_accounts == [sign \in Signs |->
        IF grouped_accounts[sign] # {}
        THEN get_ledger_accounts(l, grouped_accounts[sign]) ELSE {}]
      accounts_ids == UNION { { <<sign, a.id>> : a \in ledger_accounts[sign] } : sign \in Signs }
  IN TransactionsDAL_find_ledger_transactions(l, accounts_ids, after, before, exchange,
                                              limit, skip, order_by)

\* Transactions.get_transactions: `after.value if after.value else None`, so
\* a bound of 0 is dropped like an absent one.
FromTimestamp(value) == IF value = {} \/ value = {0} THEN {} ELSE value

GetTransactions(s, l, q) ==
  /\ CanBegin(s)
  /\ Len(hist) < MaxQueries
  /\ LET r == [NewReq("transaction", "list", l, l, NoTime, q) EXCEPT !.t_lookup = clock]
     IN \E out \in TransactionsBL_find_ledger_transactions(
                     l, q.accounts, FromTimestamp(q.after), FromTimestamp(q.before),
                     q.exchange, q.skip, q.limit, q.order_by) :
          Ends(s, [r EXCEPT !.result = out.result,
                            !.returned = { [transactions |-> out.transactions,
                                            skip |-> q.skip, limit |-> q.limit,
                                            count |-> out.count] }])
  /\ UNCHANGED <<ledgers, accounts, commodities, transactions, clock>>

\* The stored documents the queries run on: ledger 1; account 1 at
\* Assets:Cash, active or soft-deleted, and account 2 at Assets:Other; up to
\* MaxStored transactions as create_transaction stores them, two kinds of
\* them soft-deleted, one kind in ledger 2.
PathA == <<"Assets", ":", "Cash">>
PathB == <<"Assets", ":", "Other">>
StoredDetails ==
  { <<Plain(1, 1, 1), Plain(2, 1, 0 - 1)>>,
    <<Plain(1, 1, 0 - 1), Plain(2, 1, 1)>>,
    <<Plain(2, 1, 1), Plain(2, 1, 0 - 1)>>,
    <<Plain(1, 1, 0), Plain(2, 1, 0)>>,
    <<Priced(1, 1, 1, 2, 1, 1), Plain(2, 2, 0 - 1)>> }
StoredTransactionKinds ==
  { [ledger_id |-> 1, date_time |-> d,
     details |-> <<Plain(1, 1, 1), Plain(2, 1, 0 - 1)>>, deleted |-> FALSE] :
      d \in 0 .. MaxDate }
  \cup { [ledger_id |-> 1, date_time |-> 1, details |-> d, deleted |-> FALSE] :
           d \in StoredDetails }
  \cup { [ledger_id |-> 1, date_time |-> 1, details |-> d, deleted |-> TRUE] :
           d \in { <<Plain(1, 1, 1), Plain(2, 1, 0 - 1)>>,
                   <<Priced(1, 1, 1, 2, 1, 1), Plain(2, 2, 0 - 1)>> } }
  \cup { [ledger_id |-> 2, date_time |-> 1,
          details |-> <<Plain(1, 1, 1), Plain(2, 1, 0 - 1)>>, deleted |-> FALSE] }
StoredTransaction(id, k) ==
  [id |-> id, ledger_id |-> k.ledger_id, description |-> "d1",
   date_time |-> k.date_time, details |-> k.details,
   created_at |-> 0, updated_at |-> 0,
   deleted_at |-> IF k.deleted THEN 0 ELSE NoTime]

InitQuery ==
  /\ ledgers = [i \in LedgerIds |->
       [id |-> i, name |-> IF i = 1 THEN "n1" ELSE "n2", description |-> "none",
        created_at |-> 0, updated_at |-> 0, deleted_at |-> NoTime]]
  /\ \E deleted \in BOOLEAN :
       accounts = [i \in AccountIds |->
         IF i = 1 THEN StoredAccount(1, 1, "n1", PathA, deleted)
         ELSE StoredAccount(i, 1, "n2", PathB, FALSE)]
  /\ commodities = <<>>
  /\ \E D \in SUBSET (1 .. MaxStored) :
       \E f \in [D -> StoredTransactionKinds] :
         transactions = [i \in D |-> StoredTransaction(i, f[i])]
  /\ clock = 0
  /\ reqs = [s \in Slots |-> Idle]
  /\ hist = <<>>
  /\ calc = NoCalc

\* The queries the clients send: each varies one of the parameters.
NoQuery ==
  [accounts |-> <<>>, after |-> {}, before |-> {}, exchange |-> {},
   skip |-> 0, limit |-> 20, order_by |-> "-date_time"]
Queries ==
  { [NoQuery EXCEPT !.accounts = << <<sign>> \o PathA >>] : sign \in Signs }
  \cup { [NoQuery EXCEPT !.accounts = << PathA >>] }
  \cup { [NoQuery EXCEPT !.accounts = << <<"+">> \o PathA, <<"-">> \o PathB >>] }
  \cup { [NoQuery EXCEPT !.after = a, !.before = b] :
           a \in {{}} \cup { {d} : d \in 0 .. MaxDate },
           b \in {{}} \cup { {d} : d \in 0 .. MaxDate } }
  \cup { [NoQuery EXCEPT !.exchange = {x}] : x \in BOOLEAN }
  \cup { [NoQuery EXCEPT !.skip = k, !.limit = n, !.order_by = o] :
           k \in 0 .. 1, n \in 0 .. 2, o \in {"+date_time", "-date_time"} }

NextQuery ==
  \E s \in Slots, q \in Queries : GetTransactions(s, 1, q)

SpecQuery == InitQuery /\ [][NextQuery]_vars

(***************************************************************************)
(* controllers: the If-Match header of an update or a delete.  The handler  *)
(* computes pendulum.from_timestamp(float(etag.value)) and catches          *)
(* ValueError.                                                              *)
(***************************************************************************)
\* float(text): a number, nan, an infinity, or a ValueError.
Float(text) ==
  CASE text = "0" -> [raised |-> "none", kind |-> "finite", value |-> 0]
    [] text = "1" -> [raised |-> "none", kind |-> "finite", value |-> 1]
    [] text = "2" -> [raised |-> "none", kind |-> "finite", value |-> 2]
    [] text = "nan" -> [raised |-> "none", kind |-> "nan", value |-> 0]
    [] text = "inf" -> [raised |-> "none", kind |-> "inf", value |-> 0]
    [] OTHER -> [raised |-> "ValueError", kind |-> "none", value |-> 0]

\* pendulum.from_timestamp(x): datetime.fromtimestamp raises ValueError for
\* nan and OverflowError for an infinity.
from_timestamp(x) ==
  CASE x.kind = "nan" -> [raised |-> "ValueError", value |-> NoTime]
    [] x.kind = "inf" -> [raised |-> "OverflowError", value |-> NoTime]
    [] OTHER -> [raised |-> "none", value |-> x.value]

\* The try block of the handlers: the expected timestamp, None for no header
\* and for a ValueError; any other exception leaves the handler.
IfMatch_updated_at(etag) ==
  IF etag = {} THEN [result |-> "ok", updated_at |-> NoTime]
  ELSE LET x == Float(CHOOSE t \in etag : TRUE)
           d == IF x.raised = "none" THEN from_timestamp(x)
                ELSE [raised |-> x.raised, value |-> NoTime]
       IN IF d.raised = "none" THEN [result |-> "ok", updated_at |-> d.value]
          ELSE IF d.raised = "ValueError" THEN [result |-> "ok", updated_at |-> NoTime]
          ELSE [result |-> "ServerError", updated_at |-> NoTime]

\* Accounts.update_account: the body is bound before the handler runs, then
\* the header is read, then AccountsBL.update_ledger_account is called.
UpdateAccountHandler(s, l, id, etag, patch) ==
  LET h == IfMatch_updated_at(etag)
      valid == "path" \in DOMAIN patch => AccountUpdate_validate_path(patch.path).ok
  IN IF valid /\ h.result # "ok"
     THEN /\ CanBegin(s)
          /\ Ends(s, [NewReq("account", "update", l, id, NoTime, patch)
                        EXCEPT !.result = h.result])
          /\ UNCHANGED <<ledgers, accounts, commodities, transactions, clock>>
     ELSE UpdateAccountLookup(s, l, id, h.updated_at, patch)

\* Accounts.delete_account.
DeleteAccountHandler(s, l, id, etag) ==
  LET h == IfMatch_updated_at(etag)
  IN IF h.result # "ok"
     THEN /\ CanBegin(s)
          /\ Ends(s, [NewReq("account", "delete", l, id, NoTime, [deleted |-> TRUE])
                        EXCEPT !.result = h.result])
          /\ UNCHANGED <<ledgers, accounts, commodities, transactions, clock>>
     ELSE DeleteAccountLookup(s, l, id, h.updated_at)

\* The header values the clients send: every update and delete of this
\* specification carries one.
HeaderTexts == {"0", "1", "abc", "", "nan", "inf"}

NextHeader ==
  \/ Tick
  \/ \E s \in Slots : CreateAccount(s, 1, "n1", <<"Assets">>)
  \/ \E s \in Slots, i \in AccountIds, t \in HeaderTexts, p \in AccountPatches :
       UpdateAccountHandler(s, 1, i, {t}, p)
  \/ \E s \in Slots : UpdateAccountWrite(s)
  \/ \E s \in Slots : UpdateAccountReread(s)
  \/ \E s \in Slots, i \in AccountIds, t \in HeaderTexts : DeleteAccountHandler(s, 1, i, {t})
  \/ \E s \in Slots : DeleteAccountWrite(s)

SpecHeader == Init /\ [][NextHeader]_vars

(***************************************************************************)
(* Commodities beside the transactions that name them: the deletes of both *)
(* on stored documents.                                                     *)
(***************************************************************************)
\* A commodity document as CommoditiesDAL.create stores it.
StoredCommodity(id, l, deleted) ==
  [id |-> id, ledger_id |-> l, name |-> IF id = 1 THEN "n1" ELSE "n2",
   code |-> IF id = 1 THEN "c1" ELSE "c2", created_at |-> 0, updated_at |-> 0,
   deleted_at |-> IF deleted THEN 0 ELSE NoTime]

StoredLedgers ==
  [i \in LedgerIds |->
     [id |-> i, name |-> IF i = 1 THEN "n1" ELSE "n2", description |-> "none",
      created_at |-> 0, updated_at |-> 0, deleted_at |-> NoTime]]

InitCommodityUse ==
  /\ ledgers = StoredLedgers
  /\ accounts = [i \in AccountIds |->
       StoredAccount(i, 1, AccountNames[i], IF i = 1 THEN PathA ELSE PathB, FALSE)]
  /\ \E D \in SUBSET CommodityIds : \E f \in [D -> BOOLEAN] :
       commodities = [i \in D |-> StoredCommodity(i, 1, f[i])]
  /\ \E D \in SUBSET (1 .. MaxStored) : \E f \in [D -> StoredTransactionKinds] :
       transactions = [i \in D |-> StoredTransaction(i, f[i])]
  /\ clock = 0
  /\ reqs = [s \in Slots |-> Idle]
  /\ hist = <<>>
  /\ calc = NoCalc

NextCommodityUse ==
  \/ \E s \in Slots, i \in CommodityIds : DeleteCommodity(s, 1, i, NoTime)
  \/ \E s \in Slots, i \in 1 .. MaxStored : DeleteTransactionLookup(s, 1, i, NoTime)
  \/ \E s \in Slots : DeleteTransactionWrite(s)

SpecCommodityUse == InitCommodityUse /\ [][NextCommodityUse]_vars

(***************************************************************************)
(* Accounts and commodities of ledger 1, some of them soft-deleted earlier, *)
(* and the creates, updates and deletes that may reuse their keys.          *)
(***************************************************************************)
InitReuse ==
  /\ ledgers = StoredLedgers
  /\ \E D \in SUBSET AccountIds : \E deleted \in BOOLEAN :
       accounts = [i \in D |->
         IF i = 1 THEN StoredAccount(1, 1, AccountNames[1], <<"Assets">>, deleted)
         ELSE StoredAccount(i, 1, AccountNames[i], <<"Assets", ":", "Cash">>, FALSE)]
  /\ \E D \in SUBSET CommodityIds : \E deleted \in BOOLEAN :
       commodities = [i \in D |-> StoredCommodity(i, 1, IF i = 1 THEN deleted ELSE FALSE)]
  /\ transactions = <<>>
  /\ clock = 0
  /\ reqs = [s \in Slots |-> Idle]
  /\ hist = <<>>
  /\ calc = NoCalc

\* The requests ask for the key of document 1: name n1 at Assets, code c1.
NextReuse ==
  \/ \E s \in Slots : CreateAccount(s, 1, "n1", <<"Assets">>)
  \/ \E s \in Slots, i \in AccountIds :
       UpdateAccountLookup(s, 1, i, NoTime, [name |-> "n1", path |-> <<"Assets", ":">>])
  \/ \E s \in Slots : UpdateAccountWrite(s)
  \/ \E s \in Slots : UpdateAccountReread(s)
  \/ \E s \in Slots, i \in AccountIds : DeleteAccountLookup(s, 1, i, NoTime)
  \/ \E s \in Slots : DeleteAccountWrite(s)
  \/ \E s \in Slots : CreateCommodity(s, 1, "n1", "c1")
  \/ \E s \in Slots, i \in CommodityIds :
       UpdateCommodityWrite(s, 1, i, [name |-> "n2", code |-> "c1", updated_at |-> 0])
  \/ \E s \in Slots : UpdateCommodityReread(s)
  \/ \E s \in Slots, i \in CommodityIds : DeleteCommodity(s, 1, i, NoTime)

SpecReuse == InitReuse /\ [][NextReuse]_vars

(***************************************************************************)
(* The pure functions on their own: an input is drawn, the function is     *)
(* applied to it.                                                          *)
(***************************************************************************)
Symbols == {"Assets", "Cash", "Other", Colon}
RECURSIVE SeqsUpTo(_, _)
SeqsUpTo(S, n) ==
  IF n = 0 THEN {<<>>}
  ELSE LET shorter == SeqsUpTo(S, n - 1)
       IN shorter \cup { Append(q, x) : q \in shorter, x \in S }
Paths == SeqsUpTo(Symbols, MaxPathLen)
Amounts == (0 - MaxAmount) .. MaxAmount
Prices ==
  { [commodity_id |-> 2, numerator |-> n, denominator |-> d] :
      n \in (0 - MaxPrice) .. MaxPrice, d \in (0 - MaxPrice) .. MaxPrice }

CalcInputs ==
  { [fn |-> "split_path", pc |-> "input", arg |-> p] : p \in Paths }
  \cup { [fn |-> "validate_path", pc |-> "input", arg |-> p] : p \in Paths }
  \cup { [fn |-> "total", pc |-> "input", arg |-> Plain(1, 1, a)] : a \in Amounts }
  \cup { [fn |-> "total", pc |-> "input",
          arg |-> [account_id |-> 1, commodity_id |-> 1, amount |-> a, price |-> p]] :
           a \in Amounts, p \in Prices }

InitPure ==
  /\ ledgers = <<>>
  /\ accounts = <<>>
  /\ commodities = <<>>
  /\ transactions = <<>>
  /\ clock = 0
  /\ reqs = [s \in Slots |-> Idle]
  /\ hist = <<>>
  /\ calc \in CalcInputs

Applied(out) ==
  /\ calc' = [fn |-> calc.fn, pc |-> "output", arg |-> calc.arg, out |-> out]
  /\ UNCHANGED <<ledgers, accounts, commodities, transactions, clock, reqs, hist>>

ApplySplitPath ==
  /\ calc.pc = "input" /\ calc.fn = "split_path"
  /\ Applied(split_path(calc.arg))

ApplyValidatePath ==
  /\ calc.pc = "input" /\ calc.fn = "validate_path"
  /\ Applied(NewAccount_validate_path(calc.arg))

ApplyDetailTotal ==
  /\ calc.pc = "input" /\ calc.fn = "total"
  /\ Applied(Detail_total(calc.arg))

NextPure == ApplySplitPath \/ ApplyValidatePath \/ ApplyDetailTotal

SpecPure == InitPure /\ [][NextPure]_vars

(***************************************************************************)
(* Properties.  hist holds the completed requests in the order of their    *)
(* completion; a request's seq is the number of requests that had          *)
(* completed when it began.                                                *)
(***************************************************************************)
Done == 1 .. Len(hist)
IsUpdate(h) == h.op = "update"
SameEntity(g, h) == g.kind = h.kind /\ g.id = h.id
\* h began after hist[i] had completed.
After(i, h) == h.seq >= i

\* C1: for an entity whose stored updated_at is t0, update(id, t0, patch)
\* succeeds with a new updated_at t1 > t0, and the next request, a second
\* update(id, t0, otherPatch), fails with PreconditionFailed and writes nothing.
C1_StaleUpdateRejected ==
  \A i \in Done : \A j \in Done :
    ( /\ j = i + 1
      /\ IsUpdate(hist[i]) /\ IsUpdate(hist[j]) /\ SameEntity(hist[i], hist[j])
      /\ hist[i].kind \in {"ledger", "account", "transaction"}
      /\ ~hist[i].conc /\ ~hist[j].conc
      /\ hist[i].exp # NoTime /\ hist[i].seen = hist[i].exp
      /\ hist[i].result = "ok"
      /\ hist[j].exp = hist[i].exp /\ DOMAIN hist[j].patch # {} )
    => /\ hist[i].ts > hist[i].exp
       /\ hist[j].result = "PreconditionFailed"
       /\ ~hist[j].wrote

\* C1's case as the tests exercise it: time passes between the creation and
\* the first update, and the stale update is rejected.
C1_Rejected ==
  \E i \in Done : \E j \in Done :
    /\ j = i + 1
    /\ IsUpdate(hist[i]) /\ IsUpdate(hist[j]) /\ SameEntity(hist[i], hist[j])
    /\ ~hist[i].conc /\ ~hist[j].conc
    /\ hist[i].exp # NoTime /\ hist[i].seen = hist[i].exp
    /\ hist[i].result = "ok" /\ hist[i].ts > hist[i].exp
    /\ hist[j].exp = hist[i].exp
    /\ hist[j].result = "PreconditionFailed"

\* C2: of two updates of one entity that carry the same expected timestamp
\* and overlap in time, at most one succeeds and at most one writes.
C2_OneWinner ==
  \A i \in Done : \A j \in Done :
    ( /\ i < j
      /\ IsUpdate(hist[i]) /\ IsUpdate(hist[j]) /\ SameEntity(hist[i], hist[j])
      /\ hist[i].kind \in {"ledger", "account", "transaction"}
      /\ ~After(i, hist[j])
      /\ hist[i].exp # NoTime /\ hist[j].exp = hist[i].exp )
    => /\ ~(hist[i].result = "ok" /\ hist[j].result = "ok")
       /\ ~(hist[i].wrote /\ hist[j].wrote)

\* C2's case when the clock has moved between the winner's lookup and its
\* write: the loser's conditional write matches nothing.
C2_LoserRejected ==
  \E i \in Done : \E j \in Done :
    /\ i < j
    /\ IsUpdate(hist[i]) /\ IsUpdate(hist[j]) /\ SameEntity(hist[i], hist[j])
    /\ ~After(i, hist[j])
    /\ hist[i].exp # NoTime /\ hist[j].exp = hist[i].exp
    /\ hist[i].result = "ok"
    /\ hist[j].seen = hist[j].exp /\ hist[j].result = "PreconditionFailed"

\* C3: an update without an expected timestamp that found its entity active
\* succeeds unless a uniqueness constraint fires (Conflict, or the internal
\* error of an uncaught duplicate key); it never fails PreconditionFailed.
C3_UnconditionalUpdateSucceeds ==
  \A i \in Done :
    (IsUpdate(hist[i]) /\ hist[i].exp = NoTime /\ hist[i].found)
    => hist[i].result \in {"ok", "Conflict", "ServerError"}

\* C3's case: an update without a timestamp succeeds on an entity that an
\* earlier update has changed.
C3_AfterMutation ==
  \E i \in Done : \E j \in Done :
    /\ i < j
    /\ IsUpdate(hist[i]) /\ IsUpdate(hist[j]) /\ SameEntity(hist[i], hist[j])
    /\ hist[i].wrote
    /\ hist[j].exp = NoTime /\ hist[j].result = "ok"

\* C4: an update that returns an error has written nothing.
C4_FailedUpdateWritesNothing ==
  \A i \in Done :
    (IsUpdate(hist[i]) /\ hist[i].result # "ok") => ~hist[i].wrote

\* C4's case: an update is rejected by the timestamp check and has written
\* nothing.
C4_RejectedUntouched ==
  \E i \in Done :
    /\ IsUpdate(hist[i]) /\ hist[i].result = "PreconditionFailed"
    /\ ~hist[i].wrote

\* The total of a detail, from the definition of the quotient: defined when
\* there is no price or the denominator divides amount * numerator.
Divides(d, x) == d # 0 /\ x % (IF d < 0 THEN 0 - d ELSE d) = 0
TotalDefined(det) ==
  det.price = NoPrice \/ Divides(det.price.denominator, det.amount * det.price.numerator)
TotalValue(det) ==
  IF det.price = NoPrice THEN det.amount
  ELSE CHOOSE q \in (0 - MaxAmount * MaxPrice) .. (MaxAmount * MaxPrice) :
         q * det.price.denominator = det.amount * det.price.numerator
RECURSIVE FlatSum(_)
FlatSum(details) ==
  IF details = <<>> THEN 0 ELSE TotalValue(Head(details)) + FlatSum(Tail(details))
Balanced(details) ==
  /\ details # <<>>
  /\ \A k \in 1 .. Len(details) : TotalDefined(details[k])
  /\ FlatSum(details) = 0
Unbalanced(details) ==
  \/ details = <<>>
  \/ /\ \A k \in 1 .. Len(details) : TotalDefined(details[k])
     /\ FlatSum(details) # 0
IsCreateTransaction(h) == h.kind = "transaction" /\ h.op = "create"

\* C5: in an existing ledger, transaction create accepts a details list if
\* and only if it is not empty and the flat sum of the totals is 0; an empty
\* or unbalanced list is rejected with a validation error; a rejected create
\* stores nothing.
C5_CreateIffBalanced ==
  /\ \A i \in Done :
       IsCreateTransaction(hist[i]) =>
         /\ hist[i].found => (hist[i].result = "ok" <=> Balanced(hist[i].patch.details))
         /\ Unbalanced(hist[i].patch.details) => hist[i].result = "ValidationError"
         /\ hist[i].result # "ok" => ~hist[i].wrote
         /\ hist[i].result = "ok" => hist[i].found
  /\ Cardinality(DOMAIN transactions) =
       Cardinality({ i \in Done : IsCreateTransaction(hist[i]) /\ hist[i].result = "ok" })

\* C5's case: one create was accepted with a priced detail and one, of a
\* list that is not empty, was rejected as unbalanced.
C5_AcceptedAndRejected ==
  /\ \E i \in Done :
       /\ IsCreateTransaction(hist[i]) /\ hist[i].result = "ok"
       /\ \E k \in 1 .. Len(hist[i].patch.details) : hist[i].patch.details[k].price # NoPrice
  /\ \E i \in Done :
       /\ IsCreateTransaction(hist[i]) /\ hist[i].result = "ValidationError"
       /\ hist[i].patch.details # <<>>
       /\ \A k \in 1 .. Len(hist[i].patch.details) : TotalDefined(hist[i].patch.details[k])

\* C6: a priced detail's total is the exact integer amount * numerator /
\* denominator when the denominator divides amount * numerator, and a
\* validation failure otherwise, for every amount and every price.
C6_TotalExactOrRejected ==
  (calc.pc = "output" /\ calc.fn = "total" /\ calc.arg.price # NoPrice) =>
    IF Divides(calc.arg.price.denominator, calc.arg.amount * calc.arg.price.numerator)
    THEN /\ calc.out.raised = "none"
         /\ calc.out.amount * calc.arg.price.denominator =
              calc.arg.amount * calc.arg.price.numerator
    ELSE calc.out.raised = "ValueError"

\* C6's case: a total that is exact through a price that is not an integer.
C6_ExactThroughFraction ==
  /\ calc.pc = "output" /\ calc.fn = "total" /\ calc.arg.price # NoPrice
  /\ calc.arg.amount = 4 /\ calc.arg.price.numerator = 3 /\ calc.arg.price.denominator = 2
  /\ calc.out.raised = "none" /\ calc.out.amount = 6

\* The places of the colons of a path, and the place of the k-th.
ColonsOf(p) == { i \in 1 .. Len(p) : p[i] = Colon }
KthColon(p, k) ==
  CHOOSE i \in ColonsOf(p) : Cardinality({ j \in ColonsOf(p) : j <= i }) = k

\* C7: expand(path) has one element per segment, the k-th is the path up to
\* the end of its k-th segment, and the last is the path itself.
C7_ExpandIsPrefixes ==
  (calc.pc = "output" /\ calc.fn = "split_path") =>
    LET p == calc.arg
        n == Cardinality(ColonsOf(p)) + 1
    IN /\ Len(calc.out) = n
       /\ \A k \in 1 .. n - 1 : calc.out[k] = SubSeq(p, 1, KthColon(p, k) - 1)
       /\ calc.out[n] = p

\* C7's case: the three prefixes of Assets:Cash:Other.
C7_ThreeSegments ==
  /\ calc.pc = "output" /\ calc.fn = "split_path"
  /\ calc.arg = <<"Assets", Colon, "Cash", Colon, "Other">>
  /\ calc.out = << <<"Assets">>, <<"Assets", Colon, "Cash">>,
                   <<"Assets", Colon, "Cash", Colon, "Other">> >>

\* The first colon-delimited segment of a path.
FirstSegment(p) ==
  IF ColonsOf(p) = {} THEN p
  ELSE SubSeq(p, 1, (CHOOSE i \in ColonsOf(p) : \A j \in ColonsOf(p) : i <= j) - 1)
AllowedRoots ==
  { <<"Assets">>, <<"Liabilities">>, <<"Incomes">>, <<"Expenses">>, <<"Equity">> }
SendsPath(h) ==
  h.kind = "account" /\ h.op \in {"create", "update"} /\ "path" \in DOMAIN h.patch
IsCreateAccount(h) == h.kind = "account" /\ h.op = "create"

\* C8: every stored account path has its first segment among the allowed
\* roots and no trailing colon; an account create or update whose path has
\* another first segment is rejected with a validation error and stores
\* nothing.
C8_StoredPathsRooted ==
  /\ \A id \in DOMAIN accounts :
       /\ FirstSegment(accounts[id].path) \in AllowedRoots
       /\ accounts[id].path[Len(accounts[id].path)] # Colon
  /\ \A i \in Done :
       (SendsPath(hist[i]) /\ FirstSegment(hist[i].patch.path) \notin AllowedRoots)
       => hist[i].result = "ValidationError" /\ ~hist[i].wrote
  /\ Cardinality(DOMAIN accounts) =
       Cardinality({ i \in Done : IsCreateAccount(hist[i]) /\ hist[i].result = "ok" })

\* C8's case: an account stored from a path sent with a trailing colon, and
\* an update with a foreign root rejected.
C8_StrippedAndRejected ==
  /\ \E i \in Done :
       /\ IsCreateAccount(hist[i]) /\ hist[i].result = "ok"
       /\ hist[i].patch.path = <<"Assets", Colon, "Cash", Colon>>
       /\ hist[i].id \in DOMAIN accounts
       /\ accounts[hist[i].id].path = <<"Assets", Colon, "Cash">>
  /\ \E i \in Done :
       /\ IsUpdate(hist[i]) /\ SendsPath(hist[i])
       /\ hist[i].id \in DOMAIN accounts /\ hist[i].result = "ValidationError"

\* What the reads answer for the entity of a completed request.
RowOf(h) ==
  IF h.kind = "account" THEN (IF h.id \in DOMAIN accounts THEN {accounts[h.id]} ELSE {})
  ELSE IF h.kind = "commodity"
  THEN (IF h.id \in DOMAIN commodities THEN {commodities[h.id]} ELSE {})
  ELSE (IF h.id \in DOMAIN transactions THEN {transactions[h.id]} ELSE {})
GetOf(h) ==
  IF h.kind = "account" THEN get_ledger_account(h.ledger_id, h.id).result
  ELSE IF h.kind = "commodity" THEN commodity_get_by_id(h.id).result
  ELSE get_ledger_transaction(h.ledger_id, h.id).result
Listed(h) ==
  IF h.kind = "account"
  THEN \E l \in LedgerIds : \E a \in get_ledger_accounts(l, {}) : a.id = h.id
  ELSE IF h.kind = "commodity"
  THEN \E l \in LedgerIds : \E c \in get_ledger_commodities(l) : c.id = h.id
  ELSE \E l \in LedgerIds : \E t \in find_ledger_transactions(l) : t.id = h.id
IsDelete(h) == h.kind \in {"account", "commodity", "transaction"} /\ h.op = "delete"

\* C9: after a successful delete of an account, commodity or transaction,
\* get by id answers NotFound, no list holds the entity, and its row is
\* still stored with deleted_at set.
C9_DeletedIsHidden ==
  \A i \in Done :
    (IsDelete(hist[i]) /\ hist[i].result = "ok")
    => /\ GetOf(hist[i]) = "NotFound"
       /\ ~Listed(hist[i])
       /\ \E row \in RowOf(hist[i]) : row.deleted_at # NoTime

\* C9's case: a delete that matched its entity has hidden it and kept the row.
C9_Hidden ==
  \E i \in Done :
    /\ IsDelete(hist[i]) /\ hist[i].result = "ok" /\ hist[i].wrote
    /\ GetOf(hist[i]) = "NotFound" /\ ~Listed(hist[i])
    /\ \E row \in RowOf(hist[i]) : row.deleted_at # NoTime

\* C10: once a delete has set deleted_at, every update or delete of the
\* entity that completes later reports NotFound, and none that began later
\* writes.
C10_DeletedIsTerminal ==
  \A i \in Done : \A j \in Done :
    ( /\ i < j
      /\ IsDelete(hist[i]) /\ hist[i].wrote
      /\ SameEntity(hist[i], hist[j])
      /\ hist[j].op \in {"update", "delete"} )
    => /\ hist[j].result = "NotFound"
       /\ After(i, hist[j]) => ~hist[j].wrote

\* C10's case: an update of a soft-deleted entity is answered NotFound.
C10_UpdateAfterDelete ==
  \E i \in Done : \E j \in Done :
    /\ i < j /\ After(i, hist[j])
    /\ IsDelete(hist[i]) /\ hist[i].wrote
    /\ SameEntity(hist[i], hist[j])
    /\ IsUpdate(hist[j]) /\ hist[j].result = "NotFound" /\ ~hist[j].wrote

\* C11: a delete of an account, a commodity or a transaction that carries an
\* expected timestamp older than the updated_at the entity had is answered
\* PreconditionFailed, writes nothing, and the entity stays active.
C11_StaleDeleteRejected ==
  \A i \in Done :
    ( /\ IsDelete(hist[i]) /\ hist[i].found
      /\ hist[i].exp # NoTime /\ hist[i].exp < hist[i].seen )
    => /\ hist[i].result = "PreconditionFailed"
       /\ ~hist[i].wrote

\* C11's case: a commodity that was created after the clock moved is deleted
\* by a request that carries the older timestamp.
C11_StaleDelete ==
  \E i \in Done :
    /\ IsDelete(hist[i]) /\ hist[i].found
    /\ hist[i].exp # NoTime /\ hist[i].exp < hist[i].seen
    /\ \E row \in RowOf(hist[i]) : row.updated_at = hist[i].seen

\* C12: for a commodity created with updated_at t0, a first update that
\* expects t0 succeeds, and a second update that expects the same t0, begun
\* after the first has completed, is answered PreconditionFailed.
C12_SecondCommodityUpdateRejected ==
  \A k \in Done : \A i \in Done : \A j \in Done :
    ( /\ k < i /\ i < j
      /\ hist[k].kind = "commodity" /\ hist[k].op = "create" /\ hist[k].result = "ok"
      /\ hist[i].kind = "commodity" /\ IsUpdate(hist[i]) /\ SameEntity(hist[k], hist[i])
      /\ hist[j].kind = "commodity" /\ IsUpdate(hist[j]) /\ SameEntity(hist[k], hist[j])
      /\ hist[i].ledger_id = hist[k].ledger_id /\ hist[j].ledger_id = hist[k].ledger_id
      /\ hist[i].exp = hist[k].ts /\ hist[j].exp = hist[k].ts
      /\ After(k, hist[i]) /\ After(i, hist[j])
      /\ ~hist[i].clash )
    => /\ hist[i].result = "ok"
       /\ hist[j].result = "PreconditionFailed"

\* C12's case: the first update that expects the creation timestamp has
\* succeeded and written.
C12_FirstUpdateSucceeds ==
  \E k \in Done : \E i \in Done :
    /\ k < i /\ After(k, hist[i])
    /\ hist[k].kind = "commodity" /\ hist[k].op = "create" /\ hist[k].result = "ok"
    /\ hist[i].kind = "commodity" /\ IsUpdate(hist[i]) /\ SameEntity(hist[k], hist[i])
    /\ hist[i].ledger_id = hist[k].ledger_id
    /\ hist[i].exp = hist[k].ts /\ hist[i].result = "ok" /\ hist[i].wrote

ActiveRows(coll) == { coll[i] : i \in { j \in DOMAIN coll : Active(coll[j]) } }
IsCreate(h) == h.kind \in {"ledger", "account", "commodity"} /\ h.op = "create"

\* C13: no two non-deleted ledgers share a name, no two non-deleted
\* commodities share (ledger_id, code), no two non-deleted accounts share
\* (ledger_id, path, name); a create that meets an existing key is answered
\* Conflict and stores nothing.
C13_UniqueKeys ==
  /\ \A a \in ActiveRows(ledgers) : \A b \in ActiveRows(ledgers) :
       a.name = b.name => a.id = b.id
  /\ \A a \in ActiveRows(commodities) : \A b \in ActiveRows(commodities) :
       (a.ledger_id = b.ledger_id /\ a.code = b.code) => a.id = b.id
  /\ \A a \in ActiveRows(accounts) : \A b \in ActiveRows(accounts) :
       (a.ledger_id = b.ledger_id /\ a.path = b.path /\ a.name = b.name) => a.id = b.id
  /\ \A i \in Done :
       IsCreate(hist[i])
       => /\ hist[i].clash => (hist[i].result = "Conflict" /\ ~hist[i].wrote)
          /\ hist[i].wrote => ~hist[i].clash

\* C13's case: two active rows stand in each collection while a create of
\* an existing key was answered Conflict.
C13_ConflictOnCreate ==
  \E i \in Done :
    /\ IsCreate(hist[i]) /\ hist[i].clash
    /\ hist[i].result = "Conflict" /\ ~hist[i].wrote
    /\ \E j \in Done :
         /\ j < i /\ IsCreate(hist[j]) /\ hist[j].kind = hist[i].kind
         /\ hist[j].wrote /\ hist[j].patch = hist[i].patch

\* C14: an update whose write meets another entity's unique key is answered
\* Conflict (not PreconditionFailed, not an internal error) and writes nothing.
C14_UpdateCollisionIsConflict ==
  \A i \in Done :
    (IsUpdate(hist[i]) /\ hist[i].clash)
    => /\ hist[i].result = "Conflict"
       /\ ~hist[i].wrote

\* C14's case: an update has met another entity's key, and has left its own
\* row as it was.
C14_UpdateCollision ==
  \E i \in Done :
    /\ IsUpdate(hist[i]) /\ hist[i].clash /\ ~hist[i].wrote
    /\ \E row \in RowOf(hist[i]) : row.updated_at = hist[i].seen

\* C20: every successful update and every successful delete leaves the
\* entity with an updated_at strictly greater than the one it had before the
\* call.  An update stores ts; a delete stores no updated_at, and no later
\* request writes a soft-deleted row, so the row keeps what the delete left.
C20_MutationBumpsUpdatedAt ==
  \A i \in Done :
    (hist[i].wrote /\ ~hist[i].conc /\ hist[i].op \in {"update", "delete"})
    => IF IsUpdate(hist[i])
       THEN hist[i].ts > hist[i].seen
       ELSE \E row \in RowOf(hist[i]) : row.updated_at > hist[i].seen

\* C20's case: an update that ran alone has stored a later updated_at than
\* the one it found.
C20_UpdateBumped ==
  \E i \in Done :
    /\ IsUpdate(hist[i]) /\ hist[i].wrote /\ ~hist[i].conc
    /\ hist[i].result = "ok" /\ hist[i].ts > hist[i].seen
    /\ \E row \in RowOf(hist[i]) : row.updated_at >= hist[i].ts

\* path is P, or P followed by a colon and further segments.
AtOrBelow(path, P) ==
  \/ path = P
  \/ /\ Len(path) > Len(P)
     /\ SubSeq(path, 1, Len(P)) = P
     /\ path[Len(P) + 1] = Colon
IsAccountList(h) == h.kind = "account" /\ h.op = "list"

\* C16: an account path filter P selects exactly the non-deleted accounts of
\* the ledger whose path is P or a colon-delimited descendant of P; a path
\* that only begins with the characters of P is not selected.
C16_PathFilterIsMembership ==
  \A i \in Done :
    IsAccountList(hist[i])
    => \A P \in hist[i].patch.paths :
         { a.id : a \in hist[i].returned }
           = { j \in DOMAIN accounts :
                 /\ accounts[j].ledger_id = hist[i].ledger_id
                 /\ Active(accounts[j])
                 /\ AtOrBelow(accounts[j].path, P) }

\* C16's case: the filter Assets:Cash has selected an account at the path
\* and one below it, and has left out an active account of the same ledger
\* whose path continues the last segment.
C16_BoundaryLeftOut ==
  \E i \in Done :
    /\ IsAccountList(hist[i])
    /\ hist[i].patch.paths = { <<"Assets", ":", "Cash">> }
    /\ \E a \in hist[i].returned : Len(a.path) >= 3
    /\ \E j \in DOMAIN accounts :
         /\ accounts[j].ledger_id = hist[i].ledger_id /\ Active(accounts[j])
         /\ accounts[j].path = <<"Assets", ":", "Cash", "Other">>
         /\ \A a \in hist[i].returned : a.id # j

IsTransactionList(h) == h.kind = "transaction" /\ h.op = "list"
PageOf(h) == CHOOSE p \in h.returned : TRUE
ReturnedIds(h) == { PageOf(h).transactions[k].id : k \in 1..Len(PageOf(h).transactions) }
SignOf(str) == IF str # <<>> /\ str[1] \in Signs THEN str[1] ELSE "="
PathOf(str) == IF str # <<>> /\ str[1] \in Signs THEN Tail(str) ELSE str
\* The non-deleted transactions of ledger l with a detail on account a whose
\* amount has the sign asked for.
OnAccount(l, a, sign) ==
  { t \in DOMAIN transactions :
      /\ transactions[t].ledger_id = l /\ Active(transactions[t])
      /\ \E k \in 1..Len(transactions[t].details) :
           /\ transactions[t].details[k].account_id = a
           /\ CASE sign = "+" -> transactions[t].details[k].amount > 0
                [] sign = "-" -> transactions[t].details[k].amount < 0
                [] OTHER -> TRUE }

\* C15: for an account A, the filter ["+A"] returns exactly the non-deleted
\* transactions with a detail on A whose amount is > 0, ["-A"] those with a
\* detail on A whose amount is < 0, ["A"] and ["=A"] those with any detail
\* on A.
C15_SignFiltersAreExact ==
  \A i \in Done :
    (IsTransactionList(hist[i]) /\ Len(hist[i].patch.accounts) = 1)
    => \A a \in DOMAIN accounts :
         accounts[a].path = PathOf(hist[i].patch.accounts[1])
         => /\ hist[i].result = "ok"
            /\ ReturnedIds(hist[i])
                 = OnAccount(hist[i].ledger_id, a, SignOf(hist[i].patch.accounts[1]))

\* C15's case: with A active, ["+A"] has returned a transaction that credits
\* A and has left out an active one of the ledger that debits it.
C15_CreditOnly ==
  \E i \in Done :
    /\ IsTransactionList(hist[i])
    /\ hist[i].patch.accounts = << <<"+">> \o PathA >>
    /\ Active(accounts[1])
    /\ ReturnedIds(hist[i]) = OnAccount(1, 1, "+")
    /\ ReturnedIds(hist[i]) # {}
    /\ OnAccount(1, 1, "-") \ ReturnedIds(hist[i]) # {}

\* The non-deleted transactions of ledger l dated at or after every bound in
\* after and before every bound in before.
InDateRange(l, after, before) ==
  { t \in DOMAIN transactions :
      /\ transactions[t].ledger_id = l /\ Active(transactions[t])
      /\ \A a \in after : a <= transactions[t].date_time
      /\ \A b \in before : transactions[t].date_time < b }
IsDateQuery(h) ==
  /\ IsTransactionList(h)
  /\ h.patch.accounts = <<>> /\ h.patch.exchange = {}
  /\ h.patch.skip = 0 /\ h.patch.limit > MaxStored
  /\ h.patch.after \cup h.patch.before # {}

\* C17: a list with bounds after and/or before returns exactly the
\* transactions with after <= date_time and date_time < before.
C17_DateBoundsAreExact ==
  \A i \in Done :
    IsDateQuery(hist[i])
    => /\ hist[i].result = "ok"
       /\ ReturnedIds(hist[i])
            = InDateRange(hist[i].ledger_id, hist[i].patch.after, hist[i].patch.before)

\* C17's case: with after = 1 and before = 2 the list has returned a
\* transaction dated 1 and has left out an active one dated 2.
C17_EdgesOfTheRange ==
  \E i \in Done :
    /\ IsDateQuery(hist[i])
    /\ hist[i].patch.after = {1} /\ hist[i].patch.before = {2}
    /\ \E t \in ReturnedIds(hist[i]) : transactions[t].date_time = 1
    /\ \E t \in DOMAIN transactions \ ReturnedIds(hist[i]) :
         /\ transactions[t].ledger_id = 1 /\ Active(transactions[t])
         /\ transactions[t].date_time = 2

PricedDetails(row) == { k \in 1..Len(row.details) : row.details[k].price # NoPrice }
ActiveOf(l) ==
  { t \in DOMAIN transactions : transactions[t].ledger_id = l /\ Active(transactions[t]) }
IsExchangeQuery(h, x) ==
  /\ IsTransactionList(h)
  /\ h.patch.exchange = {x}
  /\ h.patch.accounts = <<>> /\ h.patch.after = {} /\ h.patch.before = {}
  /\ h.patch.skip = 0 /\ h.patch.limit > MaxStored

Min(a, b) == IF a < b THEN a ELSE b
Max(a, b) == IF a > b THEN a ELSE b
\* Two list requests that differ in skip and limit at most.
SameFilter(g, h) ==
  /\ IsTransactionList(g) /\ IsTransactionList(h)
  /\ g.ledger_id = h.ledger_id
  /\ [g.patch EXCEPT !.skip = 0, !.limit = 0] = [h.patch EXCEPT !.skip = 0, !.limit = 0]
IsPageQuery(h) ==
  /\ IsTransactionList(h)
  /\ h.patch.accounts = <<>> /\ h.patch.exchange = {}
  /\ h.patch.after = {} /\ h.patch.before = {}
InOrder(h) ==
  \A a \in 1..Len(PageOf(h).transactions) : \A b \in 1..Len(PageOf(h).transactions) :
    a < b => IF h.patch.order_by = "+date_time"
             THEN PageOf(h).transactions[a].date_time <= PageOf(h).transactions[b].date_time
             ELSE PageOf(h).transactions[a].date_time >= PageOf(h).transactions[b].date_time
SkipRange(h) == (h.patch.skip + 1) .. (h.patch.skip + h.patch.limit)

\* C19: over an unchanged collection every page of one filter reports the
\* same count, the number of transactions the filter matches; each page is
\* in the requested date_time order and holds min(limit, max(0, count - skip))
\* items; pages with disjoint skip ranges hold disjoint transactions.
C19_PagesAreConsistent ==
  /\ \A i \in Done :
       IsPageQuery(hist[i])
       => /\ PageOf(hist[i]).count = Cardinality(ActiveOf(hist[i].ledger_id))
          /\ InOrder(hist[i])
          /\ Len(PageOf(hist[i]).transactions)
               = Min(hist[i].patch.limit,
                     Max(0, PageOf(hist[i]).count - hist[i].patch.skip))
  /\ \A i \in Done : \A j \in Done :
       SameFilter(hist[i], hist[j])
       => /\ PageOf(hist[i]).count = PageOf(hist[j]).count
          /\ SkipRange(hist[i]) \cap SkipRange(hist[j]) = {}
             => ReturnedIds(hist[i]) \cap ReturnedIds(hist[j]) = {}

\* C19's case: two pages of one item each, at skip 0 and at skip 1, have
\* been read from two stored transactions and hold different transactions.
C19_TwoPages ==
  \E i \in Done : \E j \in Done :
    /\ IsPageQuery(hist[i]) /\ SameFilter(hist[i], hist[j])
    /\ hist[i].patch.skip = 0 /\ hist[i].patch.limit = 1
    /\ hist[j].patch.skip = 1 /\ hist[j].patch.limit = 1
    /\ PageOf(hist[i]).count = 2 /\ PageOf(hist[j]).count = 2
    /\ Len(PageOf(hist[i]).transactions) = 1 /\ Len(PageOf(hist[j]).transactions) = 1
    /\ ReturnedIds(hist[i]) # ReturnedIds(hist[j])

IsTransactionUpdate(h) == h.kind = "transaction" /\ IsUpdate(h)
ReplacesWithUnbalanced(h) ==
  /\ IsTransactionUpdate(h) /\ "details" \in DOMAIN h.patch
  /\ h.patch.details # <<>> /\ Unbalanced(h.patch.details)

\* C21: an update that ran alone, carried no expected timestamp and replaces
\* the details of a stored transaction with a list whose flat sum is not 0
\* is written, completes successfully and returns the transaction with the
\* new details.
C21_UnbalancedUpdateSucceeds ==
  \A i \in Done :
    (ReplacesWithUnbalanced(hist[i]) /\ hist[i].found /\ ~hist[i].conc /\ hist[i].exp = NoTime)
    => /\ hist[i].wrote
       /\ hist[i].result = "ok"
       /\ \E row \in hist[i].returned : row.details = hist[i].patch.details

\* C21's case: the unbalanced details of an update are stored.
C21_UnbalancedStored ==
  \E i \in Done :
    /\ ReplacesWithUnbalanced(hist[i]) /\ hist[i].found /\ hist[i].wrote
    /\ \E row \in RowOf(hist[i]) : row.details = hist[i].patch.details

\* The non-deleted transactions of ledger l with a detail whose amount or
\* price is in commodity c.
TransactionsUsing(l, c) ==
  { t \in DOMAIN transactions :
      /\ transactions[t].ledger_id = l /\ Active(transactions[t])
      /\ \E k \in 1 .. Len(transactions[t].details) :
           \/ transactions[t].details[k].commodity_id = c
           \/ /\ transactions[t].details[k].price # NoPrice
              /\ transactions[t].details[k].price.commodity_id = c }
IsCommodityDelete(h) == h.kind = "commodity" /\ h.op = "delete"

\* C22: a commodity that a detail of a non-deleted transaction of its ledger
\* names, as the commodity of the amount or of the price, is not deleted: no
\* delete has written to a commodity that such a transaction names.
C22_UsedCommodityIsKept ==
  \A i \in Done :
    (IsCommodityDelete(hist[i]) /\ hist[i].found
       /\ TransactionsUsing(hist[i].ledger_id, hist[i].id) # {})
    => /\ ~hist[i].wrote
       /\ hist[i].result # "ok"
       /\ \E row \in RowOf(hist[i]) : Active(row)

\* C22's case: a commodity that only a price names has been deleted while
\* the transaction is active.
C22_UsedCommodityDeleted ==
  \E i \in Done :
    /\ IsCommodityDelete(hist[i]) /\ hist[i].found /\ hist[i].wrote
    /\ \E t \in TransactionsUsing(hist[i].ledger_id, hist[i].id) :
         \E k \in 1 .. Len(transactions[t].details) :
           /\ transactions[t].details[k].price # NoPrice
           /\ transactions[t].details[k].price.commodity_id = hist[i].id

\* The paths a list request gives under one sigil; a path without a sigil
\* counts under "=".
BucketOf(h, sign) ==
  { PathOf(h.patch.accounts[k]) :
      k \in { j \in 1 .. Len(h.patch.accounts) : SignOf(h.patch.accounts[j]) = sign } }
\* The active accounts of ledger l at or below one of the paths.
ResolvedFor(l, paths) ==
  { a \in DOMAIN accounts :
      /\ accounts[a].ledger_id = l /\ Active(accounts[a])
      /\ \E P \in paths : AtOrBelow(accounts[a].path, P) }

\* C23: each transaction a list returns has, for every non-empty sigil
\* bucket of the request, a detail on one of the accounts the bucket's paths
\* resolve to, with the sign of the bucket; so a non-empty bucket that
\* resolves to no account leaves the result empty.
C23_BucketsAreAnded ==
  \A i \in Done :
    (IsTransactionList(hist[i]) /\ hist[i].result = "ok")
    => \A sign \in Signs :
         BucketOf(hist[i], sign) # {}
         => ReturnedIds(hist[i])
              \subseteq UNION { OnAccount(hist[i].ledger_id, a, sign) :
                                  a \in ResolvedFor(hist[i].ledger_id, BucketOf(hist[i], sign)) }

\* C23's case: with both accounts active, the request ["+A", "-B"] has
\* returned a transaction and has left out one that debits B without
\* crediting A.
C23_TwoBuckets ==
  \E i \in Done :
    /\ IsTransactionList(hist[i])
    /\ hist[i].patch.accounts = << <<"+">> \o PathA, <<"-">> \o PathB >>
    /\ Active(accounts[1])
    /\ ReturnedIds(hist[i]) # {}
    /\ ReturnedIds(hist[i]) = OnAccount(1, 1, "+") \cap OnAccount(1, 2, "-")
    /\ OnAccount(1, 2, "-") \ ReturnedIds(hist[i]) # {}

\* expand(path), said without the function: one element per segment, the
\* k-th the path up to the end of its k-th segment.
IsExpansionOf(paths, p) ==
  LET n == Cardinality(ColonsOf(p)) + 1
  IN /\ Len(paths) = n
     /\ \A k \in 1 .. n - 1 : paths[k] = SubSeq(p, 1, KthColon(p, k) - 1)
     /\ paths[n] = p

\* C24: after any creates and updates of accounts, with a new name, a new
\* path or both, the paths list of every stored account is the expansion of
\* its path.
C24_PathsFollowPath ==
  \A a \in DOMAIN accounts : IsExpansionOf(accounts[a].paths, accounts[a].path)

\* C24's case: an account created at Assets:Cash has been moved to Assets by
\* one update and renamed by another that gave no path.
C24_MovedAndRenamed ==
  \E i \in Done : \E j \in Done : \E k \in Done :
    /\ hist[i].kind = "account" /\ hist[i].op = "create" /\ hist[i].result = "ok"
    /\ hist[i].patch.path = <<"Assets", ":", "Cash", ":">>
    /\ IsUpdate(hist[j]) /\ hist[j].kind = "account" /\ hist[j].id = hist[i].id
    /\ hist[j].wrote /\ "path" \in DOMAIN hist[j].patch
    /\ IsUpdate(hist[k]) /\ hist[k].kind = "account" /\ hist[k].id = hist[i].id
    /\ hist[k].wrote /\ "path" \notin DOMAIN hist[k].patch
    /\ i < j /\ j < k
    /\ accounts[hist[i].id].paths = << <<"Assets">> >>

\* The collection a request of kind k works on, now and after the step.
CollectionOf(k) ==
  CASE k = "ledger" -> ledgers [] k = "account" -> accounts
    [] k = "commodity" -> commodities [] OTHER -> transactions
CollectionAfter(k) ==
  CASE k = "ledger" -> ledgers' [] k = "account" -> accounts'
    [] k = "commodity" -> commodities' [] OTHER -> transactions'
\* The step in which the update in slot s writes.
UpdateWrites(s) ==
  /\ reqs'[s].pc # "idle" /\ reqs'[s].op = "update" /\ reqs'[s].wrote
  /\ IF reqs[s].pc = "idle" THEN TRUE ELSE ~reqs[s].wrote
\* The fields an update with this patch may change.
Patched(k, patch) ==
  (DOMAIN patch \cup {"updated_at"})
    \cup (IF k = "account" /\ "path" \in DOMAIN patch THEN {"paths"} ELSE {})

\* C25: the write of an update changes, in the document it addresses, only
\* the fields of the patch, updated_at and, for an account with a new path,
\* paths; id, ledger_id, created_at and deleted_at keep their values, and so
\* does every other document.
C25_UpdateFrame ==
  [][\A s \in Slots :
       UpdateWrites(s)
       => LET k == reqs'[s].kind
              id == reqs'[s].id
              old == CollectionOf(k)
              new == CollectionAfter(k)
          IN /\ DOMAIN new = DOMAIN old
             /\ \A j \in DOMAIN old \ {id} : new[j] = old[j]
             /\ DOMAIN new[id] = DOMAIN old[id]
             /\ \A f \in DOMAIN old[id] :
                  (f \notin Patched(k, reqs'[s].patch)
                     \/ f \in {"id", "ledger_id", "created_at", "deleted_at"})
                  => new[id][f] = old[id][f]]_vars

\* C25's case: an update that gave only a name has renamed an account at
\* Assets:Cash and has answered with the same path.
C25_RenamedOnly ==
  \E i \in Done :
    /\ hist[i].kind = "account" /\ IsUpdate(hist[i]) /\ hist[i].wrote
    /\ hist[i].patch = [name |-> "n2"]
    /\ hist[i].result = "ok"
    /\ \E row \in hist[i].returned :
         /\ row.name = "n2" /\ row.path = <<"Assets">>
         /\ row.created_at = 0

\* The request, with a body the validation accepts, is addressed with another
\* ledger than the one its entity was created in, and the creation had
\* completed when the request began.
AddressedThroughOtherLedger(h) ==
  /\ h.kind \in {"account", "commodity", "transaction"}
  /\ h.op \in {"get", "update", "delete"}
  /\ (h.kind = "account" /\ h.op = "update" /\ "path" \in DOMAIN h.patch)
       => AccountUpdate_validate_path(h.patch.path).ok
  /\ \E j \in Done :
       /\ hist[j].op = "create" /\ hist[j].result = "ok"
       /\ SameEntity(hist[j], h) /\ After(j, h)
       /\ hist[j].ledger_id # h.ledger_id

\* C26: an update or delete of an account, a commodity or a transaction that
\* is addressed with a ledger other than the entity's own reports NotFound
\* and writes nothing, and every stored entity is still in the ledger it was
\* created in.
C26_LedgerScoped ==
  /\ \A i \in Done :
       AddressedThroughOtherLedger(hist[i])
       => hist[i].result = "NotFound" /\ ~hist[i].wrote
  /\ \A i \in Done :
       (hist[i].op = "create" /\ hist[i].result = "ok"
          /\ hist[i].kind \in {"account", "commodity", "transaction"})
       => \A row \in RowOf(hist[i]) : row.ledger_id = hist[i].ledger_id

\* C26's case: a commodity of one ledger has been updated through the other
\* ledger's address; nothing was written and the answer was the commodity.
C26_AnsweredThroughOtherLedger ==
  \E i \in Done :
    /\ AddressedThroughOtherLedger(hist[i])
    /\ hist[i].kind = "commodity" /\ IsUpdate(hist[i])
    /\ ~hist[i].wrote
    /\ hist[i].result = "ok"
    /\ \E row \in hist[i].returned : row.ledger_id # hist[i].ledger_id

\* The account the request addresses was created in the request's ledger and
\* not deleted before the request began.
AccountWasThere(h) ==
  /\ \E j \in Done :
       /\ IsCreateAccount(hist[j]) /\ hist[j].result = "ok"
       /\ hist[j].id = h.id /\ hist[j].ledger_id = h.ledger_id /\ After(j, h)
  /\ ~\E k \in Done :
       /\ hist[k].kind = "account" /\ IsDelete(hist[k]) /\ hist[k].wrote
       /\ hist[k].id = h.id /\ After(k, h)

\* C27: an update or a delete whose If-Match header does not parse as a
\* timestamp goes on as one without a header: run alone on a stored account,
\* with a body the validation accepts, it writes and succeeds whatever the
\* account's updated_at is.  (In SpecHeader every request carries a header,
\* so the requests without an expected timestamp are those whose header did
\* not parse.)
C27_UnparsableHeaderIsNoHeader ==
  \A i \in Done :
    (/\ hist[i].kind = "account" /\ hist[i].op \in {"update", "delete"}
     /\ hist[i].exp = NoTime /\ ~hist[i].conc
     /\ (IsUpdate(hist[i]) /\ "path" \in DOMAIN hist[i].patch)
          => AccountUpdate_validate_path(hist[i].patch.path).ok
     /\ AccountWasThere(hist[i]))
    => \/ hist[i].clash
       \/ hist[i].wrote /\ hist[i].result = "ok"

\* C27's case: an update whose header did not parse has overwritten an
\* account that an earlier update had modified after its creation.
C27_OverwroteModified ==
  \E i \in Done :
    /\ hist[i].kind = "account" /\ IsUpdate(hist[i])
    /\ hist[i].exp = NoTime /\ hist[i].wrote /\ hist[i].result = "ok"
    /\ \E row \in hist[i].returned : hist[i].seen > row.created_at

\* The request would write a row with the key of document j of its
\* collection, and j was soft-deleted before the request began.
ReusesKeyOf(h, j) ==
  /\ j # h.id
  /\ \A k \in Done : (hist[k].kind = h.kind /\ IsDelete(hist[k]) /\ hist[k].id = j
                        /\ hist[k].wrote) => After(k, h)
  /\ IF h.kind = "account"
     THEN /\ j \in DOMAIN accounts /\ ~Active(accounts[j])
          /\ {"name", "path"} \subseteq DOMAIN h.patch
          /\ NewAccount_validate_path(h.patch.path).ok
          /\ accounts[j].ledger_id = h.ledger_id
          /\ accounts[j].path = NewAccount_validate_path(h.patch.path).path
          /\ accounts[j].name = h.patch.name
     ELSE /\ h.kind = "commodity"
          /\ j \in DOMAIN commodities /\ ~Active(commodities[j])
          /\ commodities[j].ledger_id = h.ledger_id
          /\ commodities[j].code = h.patch.code
\* The request got as far as its write.
ReachedTheWrite(h) ==
  \/ h.op = "create"
  \/ IsUpdate(h) /\ h.found /\ (h.kind = "commodity" => h.exp = 0)
       /\ h.result # "PreconditionFailed"

\* C28: a create or an update that would give a row the key of a
\* soft-deleted account (ledger_id, path, name) or commodity (ledger_id,
\* code) is rejected by the unique index and writes nothing.
C28_DeletedKeyStaysTaken ==
  \A i \in Done :
    (/\ hist[i].kind \in {"account", "commodity"}
     /\ hist[i].op \in {"create", "update"}
     /\ ReachedTheWrite(hist[i])
     /\ \E j \in AccountIds \cup CommodityIds : ReusesKeyOf(hist[i], j))
    => /\ hist[i].clash
       /\ ~hist[i].wrote
       /\ hist[i].result \in {"Conflict", "ServerError"}

\* C28's case: an update has been refused the key of an account that a
\* delete of this run had soft-deleted.
C28_RefusedAfterDelete ==
  \E k \in Done : \E i \in Done :
    /\ hist[k].kind = "account" /\ IsDelete(hist[k]) /\ hist[k].wrote
    /\ k < i
    /\ hist[i].kind = "account" /\ IsUpdate(hist[i])
    /\ ReusesKeyOf(hist[i], hist[k].id)
    /\ hist[i].clash /\ ~hist[i].wrote

\* The answers of a list of ledger l with the default parameters.
ListOf(l) == TransactionsDAL_find_ledger_transactions(l, {}, {}, {}, {}, 20, 0, "-date_time")

\* C29: whatever creates, updates and deletes have run, a transaction that
\* a get, a list or the response of a create or an update hands back has
\* details that are not empty and whose totals sum to 0.
C29_ReturnedIsBalanced ==
  /\ \A id \in DOMAIN transactions :
       /\ \A row \in get_transaction(id).returned : Balanced(row.details)
       /\ \A l \in LedgerIds :
            \A row \in get_ledger_transaction(l, id).returned : Balanced(row.details)
  /\ \A l \in LedgerIds : \A out \in ListOf(l) :
       \A k \in 1 .. Len(out.transactions) : Balanced(out.transactions[k].details)
  /\ \A i \in Done :
       (hist[i].kind = "transaction" /\ hist[i].op \in {"create", "update"})
       => \A row \in hist[i].returned : Balanced(row.details)

\* C29's case: an update has left an unbalanced transaction stored, and the
\* get and the list of its ledger answer with a validation error.
C29_StoredButNotReturned ==
  \E id \in DOMAIN transactions :
    /\ Active(transactions[id]) /\ Unbalanced(transactions[id].details)
    /\ get_transaction(id) = [result |-> "ValidationError", returned |-> {}]
    /\ \A out \in ListOf(transactions[id].ledger_id) :
         out.result = "ValidationError" /\ out.transactions = <<>>

\* The value an update's patch gives to field f of the stored document.
PatchedValue(h, f) ==
  IF h.kind = "account" /\ f = "path"
  THEN AccountUpdate_validate_path(h.patch.path).path
  ELSE h.patch[f]

\* C30: the entity a successful update returns is the one the update wrote:
\* it has the fields of this call's patch and the updated_at of this call's
\* write, whatever other requests ran between the write and the re-read.
C30_ReturnsWhatItWrote ==
  \A i \in Done :
    (IsUpdate(hist[i]) /\ hist[i].result = "ok")
    => /\ hist[i].wrote
       /\ \E row \in hist[i].returned :
            /\ row.updated_at = hist[i].ts
            /\ \A f \in DOMAIN hist[i].patch : row[f] = PatchedValue(hist[i], f)

\* C30's case: an update that ran beside no other request has returned the
\* entity with its own patch and the timestamp of its own write, later than
\* the one it found.
C30_AloneReturnsOwnWrite ==
  \E i \in Done :
    /\ IsUpdate(hist[i]) /\ hist[i].result = "ok" /\ hist[i].wrote /\ ~hist[i].conc
    /\ hist[i].ts > hist[i].seen
    /\ \E row \in hist[i].returned :
         /\ row.updated_at = hist[i].ts
         /\ \A f \in DOMAIN hist[i].patch : row[f] = PatchedValue(hist[i], f)

====
